---------------------------- MODULE Spec2Model ----------------------------
(***************************************************************************)
(* Attribute reconciliation of terraform-provider-ldap.                    *)
(*                                                                         *)
(* The module models                                                       *)
(*   - the full-ownership resource ldap_object (create, read, update,      *)
(*     delete, exists) and its diff engine computeAndAddDeltas;            *)
(*   - the partial-ownership resource ldap_object_attributes in its two    *)
(*     revisions found in the repository: the one that diffs with          *)
(*     computeAndAddAttributeDeltas and intersects with the directory on   *)
(*     read, and the earlier one (suffix V1 below) that diffs with         *)
(*     computeAndAddDeltas and does not;                                   *)
(*   - one directory entry, changed by the resources and by other means.   *)
(*                                                                         *)
(* An attribute set (schema.Set keyed by attributeHash) is a set of pairs  *)
(* <<name, value>>; names and values are strings.  A modify request is the *)
(* sequence of its Changes, each [Operation, Type, Vals]; Vals is the set  *)
(* of the values of the Go slice (a set's List() never repeats a pair).    *)
(* attributeHash is taken to separate the pairs of the universes below.    *)
(*                                                                         *)
(* The recorded state d changes where a handler calls d.Set or d.SetId; a  *)
(* handler that returns an error before it does leaves d as it was, and a  *)
(* delete that returns nil removes the resource from the state.  The       *)
(* directory answers as RFC 4511 prescribes: a modify request is atomic,   *)
(* an Add of a value the attribute holds fails with 20, a Delete of a      *)
(* value it does not hold with 16, a request that would drop the RDN value *)
(* with 67, any request on a missing entry with 32.                        *)
(***************************************************************************)
EXTENDS Integers, Sequences, FiniteSets, TLC

VARIABLES
    dn,                 \* d.Get("dn"): the distinguished name of the entry
    entry,              \* the directory entry: [exists, attrs]
    d,                  \* the resource's recorded state: [id, attributes, object_classes]
    attributesToSkip,   \* the skip list ("objectClass" and skip_attributes)
    attributesToSet,    \* select_attributes of the configuration
    os,                 \* old attribute set of the last operation
    ns,                 \* new attribute set of the last operation
    modify,             \* Changes of the last modify request built
    op,                 \* the last operation
    err,                \* what the last operation returned: "nil" or an error
    calls,              \* directory mutations the last operation issued
    sr,                 \* what the search of the last operation answered, "none" without one
    b,                  \* what the last resourceLDAPObjectExists returned
    matched,            \* whether the directory matched os when the last update began
    owned,              \* every pair that was in os or ns of a partial-ownership operation
    nExternal,          \* how many events outside the resource have happened
    checksum,           \* attributeHash: what crc32.ChecksumIEEE returned
    intSize,            \* attributeHash: the bits of an int on the platform
    h,                  \* attributeHash: what it returned, -1 before it has run
    searchDepthInput,   \* data source: d.Get("depth")
    searchResult,       \* data source: the entries its search finds
    data,               \* data source: its recorded state [id, dn, attributes]
    objectClasses,      \* d.Get("object_classes") of the last ldap_object update, {} after any other operation
    reconcilers,        \* two ldap_object_attributes on one entry: the record of each
    initial             \* two ldap_object_attributes on one entry: the entry before they act

vars == <<dn, entry, d, attributesToSkip, attributesToSet, os, ns, modify,
          op, err, calls, sr, b, matched, owned, nExternal,
          checksum, intSize, h, searchDepthInput, searchResult, data,
          objectClasses, reconcilers, initial>>

\* what attributeHash and the data source work on: the resources leave it alone
aux == <<checksum, intSize, h, searchDepthInput, searchResult, data,
         reconcilers, initial>>

NoData == [id |-> "", dn |-> "", attributes |-> {}, attributes_json |-> <<>>]

\* no hash computed and no data source read
InitAux ==
    /\ checksum = 0
    /\ intSize = 0
    /\ h = -1
    /\ searchDepthInput = "subtree"
    /\ searchResult = <<>>
    /\ data = NoData
    /\ objectClasses = {}
    /\ reconcilers = <<>>
    /\ initial = [exists |-> FALSE, attrs |-> {}]

---------------------------------------------------------------------------
(* Bounds of the model. *)

\* the largest attribute set a configuration or a recorded state holds in SpecDiff
MaxAttrs == 3
\* the largest attribute set a configuration declares in the resource specifications
MaxDesired == 2
\* how many events outside the resource a behaviour contains: changes made to the
\* entry by other means, and calls that fail for a reason other than the request
MaxExternal == 1
\* the bits of a checksum: crc32 gives 32, scaled down here; an int has as many
\* bits (the 32-bit platforms) or twice as many (the 64-bit platforms)
ChecksumBits == 8
\* the most entries the search of the data source finds
MaxFound == 2

---------------------------------------------------------------------------
(* Strings. *)

HasPrefix(s, prefix) ==
    /\ Len(prefix) <= Len(s)
    /\ SubSeq(s, 1, Len(prefix)) = prefix

\* stands for the byte 0x00 that follows every ASCII character in UTF-16LE
NUL == "~"

RECURSIVE UTF16LE(_)
UTF16LE(s) ==
    IF Len(s) = 0 THEN ""
    ELSE SubSeq(s, 1, 1) \o NUL \o UTF16LE(SubSeq(s, 2, Len(s)))

toAttributeValue(name, value) ==
    IF name = "unicodePwd"
    THEN UTF16LE("\"" \o value \o "\"")
    ELSE value

stringSliceContains(haystack, needle) == needle \in haystack

---------------------------------------------------------------------------
(* Attribute sets. *)

\* the pairs a configuration may declare
AttrUniverse ==
    { <<"cn", "foo">>, <<"cn", "bar">>,
      <<"mail", "a">>, <<"mail", "b">>, <<"mail", "c">>,
      <<"unicodePwd", "p">>,
      <<"objectClass", "top">> }

\* the names a configuration may list in skip_attributes or select_attributes
PolicyNames == {"mail"}

SetsUpTo(U, n) == {S \in SUBSET U : Cardinality(S) <= n}

Names(S) == {p[1] : p \in S}

\* the loop "for _, m := range ns.List() { if k == mk { append(toAttributeValue) } }"
valuesUnder(k, S) == {toAttributeValue(k, p[2]) : p \in {q \in S : q[1] = k}}

\* a pair as the directory holds it once it has been sent
WirePair(p) == <<p[1], toAttributeValue(p[1], p[2])>>
Wire(S) == {WirePair(p) : p \in S}

\* util.Set.List(): the names in some order
List(S) == {f \in [1..Cardinality(S) -> S] : \A i, j \in DOMAIN f : i # j => f[i] # f[j]}

Change(operation, k, vals) == [Operation |-> operation, Type |-> k, Vals |-> vals]

---------------------------------------------------------------------------
(* The diff engines. *)

\* shouldSkipAttribute with a slip: the deny list is consulted only when there is
\* no allow list, so a name on both lists passes.
shouldSkipAttribute_AllowWins(k, skip, set) ==
    IF set # {}
    THEN ~stringSliceContains(set, k)
    ELSE stringSliceContains(skip, k)

shouldSkipAttribute(k, skip, set) ==
    \/ set # {} /\ ~stringSliceContains(set, k)
    \/ skip # {} /\ stringSliceContains(skip, k)

\* computeAndAddDeltas with a slip: an added name is a new attribute whenever none
\* of its values is removed, whether or not another value is kept.
computeAndAddDeltas_AddIgnoresKept(changes, old, new, skip, set) ==
    LET rk == Names(old \ new)
        ak == Names(new \ old)
        kk == Names(new \cap old)
        dropped == {k \in rk : ~shouldSkipAttribute(k, skip, set)
                               /\ k \notin ak /\ k \notin kk}
        added   == {k \in ak : ~shouldSkipAttribute(k, skip, set) /\ k \notin rk}
        changed == {k \in rk \cup ak : ~shouldSkipAttribute(k, skip, set)}
                   \ (dropped \cup added)
    IN  { changes
          \o [i \in 1..Len(r) |-> Change("Delete", r[i], {})]
          \o [i \in 1..Len(a) |-> Change("Add", a[i], valuesUnder(a[i], new))]
          \o [i \in 1..Len(c) |-> Change("Replace", c[i], valuesUnder(c[i], new))]
          : <<r, a, c>> \in List(dropped) \X List(added) \X List(changed) }

\* computeAndAddDeltas with a slip: a new attribute is sent as a Replace.
computeAndAddDeltas_AddAsReplace(changes, old, new, skip, set) ==
    LET rk == Names(old \ new)
        ak == Names(new \ old)
        kk == Names(new \cap old)
        dropped == {k \in rk : ~shouldSkipAttribute(k, skip, set)
                               /\ k \notin ak /\ k \notin kk}
        changed == {k \in rk \cup ak : ~shouldSkipAttribute(k, skip, set)} \ dropped
    IN  { changes
          \o [i \in 1..Len(r) |-> Change("Delete", r[i], {})]
          \o [i \in 1..Len(c) |-> Change("Replace", c[i], valuesUnder(c[i], new))]
          : <<r, c>> \in List(dropped) \X List(changed) }

\* computeAndAddDeltas with a slip: a dropped attribute is deleted value by value,
\* as the partial-ownership engine does.
computeAndAddDeltas_DeleteValues(changes, old, new, skip, set) ==
    LET rk == Names(old \ new)
        ak == Names(new \ old)
        kk == Names(new \cap old)
        dropped == {k \in rk : ~shouldSkipAttribute(k, skip, set)
                               /\ k \notin ak /\ k \notin kk}
        added   == {k \in ak : ~shouldSkipAttribute(k, skip, set)
                               /\ k \notin rk /\ k \notin kk}
        changed == {k \in rk \cup ak : ~shouldSkipAttribute(k, skip, set)}
                   \ (dropped \cup added)
    IN  { changes
          \o [i \in 1..Len(r) |-> Change("Delete", r[i], valuesUnder(r[i], old))]
          \o [i \in 1..Len(a) |-> Change("Add", a[i], valuesUnder(a[i], new))]
          \o [i \in 1..Len(c) |-> Change("Replace", c[i], valuesUnder(c[i], new))]
          : <<r, a, c>> \in List(dropped) \X List(added) \X List(changed) }

\* computeAndAddDeltas with a slip: a Replace gathers its values from new - old,
\* as the Add of the partial-ownership engine does.
computeAndAddDeltas_ReplaceAdded(changes, old, new, skip, set) ==
    LET rk == Names(old \ new)
        ak == Names(new \ old)
        kk == Names(new \cap old)
        dropped == {k \in rk : ~shouldSkipAttribute(k, skip, set)
                               /\ k \notin ak /\ k \notin kk}
        added   == {k \in ak : ~shouldSkipAttribute(k, skip, set)
                               /\ k \notin rk /\ k \notin kk}
        ck == {k \in rk : ~shouldSkipAttribute(k, skip, set)
                          /\ ~(k \notin ak /\ k \notin kk)}
              \cup
              {k \in ak : ~shouldSkipAttribute(k, skip, set)
                          /\ ~(k \notin rk /\ k \notin kk)}
        changed == {k \in ck : ~shouldSkipAttribute(k, skip, set)}
    IN  { changes
          \o [i \in 1..Len(r) |-> Change("Delete", r[i], {})]
          \o [i \in 1..Len(a) |-> Change("Add", a[i], valuesUnder(a[i], new))]
          \o [i \in 1..Len(c) |-> Change("Replace", c[i], valuesUnder(c[i], new \ old))]
          : <<r, a, c>> \in List(dropped) \X List(added) \X List(changed) }

\* computeAndAddDeltas with a slip: every name with a removed value gets a Delete,
\* whether or not it goes among the changed names as well.
computeAndAddDeltas_DeleteRemoved(changes, old, new, skip, set) ==
    LET rk == Names(old \ new)
        ak == Names(new \ old)
        kk == Names(new \cap old)
        dropped == {k \in rk : ~shouldSkipAttribute(k, skip, set)}
        added   == {k \in ak : ~shouldSkipAttribute(k, skip, set)
                               /\ k \notin rk /\ k \notin kk}
        ck == {k \in rk : ~shouldSkipAttribute(k, skip, set)
                          /\ ~(k \notin ak /\ k \notin kk)}
              \cup
              {k \in ak : ~shouldSkipAttribute(k, skip, set)
                          /\ ~(k \notin rk /\ k \notin kk)}
        changed == {k \in ck : ~shouldSkipAttribute(k, skip, set)}
    IN  { changes
          \o [i \in 1..Len(r) |-> Change("Delete", r[i], {})]
          \o [i \in 1..Len(a) |-> Change("Add", a[i], valuesUnder(a[i], new))]
          \o [i \in 1..Len(c) |-> Change("Replace", c[i], valuesUnder(c[i], new))]
          : <<r, a, c>> \in List(dropped) \X List(added) \X List(changed) }

\* The Changes computeAndAddDeltas may leave in the request: the changes already
\* there, then a Delete per dropped name, an Add per new name and a Replace per
\* changed name, each group in the order of its util.Set.
computeAndAddDeltas(changes, old, new, skip, set) ==
    LET rk == Names(old \ new)
        ak == Names(new \ old)
        kk == Names(new \cap old)
        dropped == {k \in rk : ~shouldSkipAttribute(k, skip, set)
                               /\ k \notin ak /\ k \notin kk}
        added   == {k \in ak : ~shouldSkipAttribute(k, skip, set)
                               /\ k \notin rk /\ k \notin kk}
        ck == {k \in rk : ~shouldSkipAttribute(k, skip, set)
                          /\ ~(k \notin ak /\ k \notin kk)}
              \cup
              {k \in ak : ~shouldSkipAttribute(k, skip, set)
                          /\ ~(k \notin rk /\ k \notin kk)}
        changed == {k \in ck : ~shouldSkipAttribute(k, skip, set)}
    IN  { changes
          \o [i \in 1..Len(r) |-> Change("Delete", r[i], {})]
          \o [i \in 1..Len(a) |-> Change("Add", a[i], valuesUnder(a[i], new))]
          \o [i \in 1..Len(c) |-> Change("Replace", c[i], valuesUnder(c[i], new))]
          : <<r, a, c>> \in List(dropped) \X List(added) \X List(changed) }

\* computeAndAddAttributeDeltas with a slip: the names come from the whole old and
\* new sets, not from their differences.
computeAndAddAttributeDeltas_NoDifference(changes, old, new) ==
    LET rk == Names(old)
        ak == Names(new)
    IN  { changes
          \o [i \in 1..Len(r) |-> Change("Delete", r[i], valuesUnder(r[i], old \ new))]
          \o [i \in 1..Len(a) |-> Change("Add", a[i], valuesUnder(a[i], new \ old))]
          : <<r, a>> \in List(rk) \X List(ak) }

\* computeAndAddAttributeDeltas with a slip: an Add gathers its values from the
\* whole new set, as the full-ownership engine does.
computeAndAddAttributeDeltas_AddAllNew(changes, old, new) ==
    LET ra == old \ new
        rk == Names(ra)
        aa == new \ old
        ak == Names(aa)
    IN  { changes
          \o [i \in 1..Len(r) |-> Change("Delete", r[i], valuesUnder(r[i], ra))]
          \o [i \in 1..Len(a) |-> Change("Add", a[i], valuesUnder(a[i], new))]
          : <<r, a>> \in List(rk) \X List(ak) }

\* computeAndAddAttributeDeltas with a slip: the loop of the removals runs over
\* the names of old, so a name that loses nothing gets a Delete with no value.
computeAndAddAttributeDeltas_NamesOfOld(changes, old, new) ==
    LET ra == old \ new
        rk == Names(old)
        aa == new \ old
        ak == Names(aa)
    IN  { changes
          \o [i \in 1..Len(r) |-> Change("Delete", r[i], valuesUnder(r[i], ra))]
          \o [i \in 1..Len(a) |-> Change("Add", a[i], valuesUnder(a[i], aa))]
          : <<r, a>> \in List(rk) \X List(ak) }

\* computeAndAddAttributeDeltas with a slip: a Delete names the attribute and
\* lists no value, as the full-ownership engine does.
computeAndAddAttributeDeltas_WholeAttribute(changes, old, new) ==
    LET ra == old \ new
        rk == Names(ra)
        aa == new \ old
        ak == Names(aa)
    IN  { changes
          \o [i \in 1..Len(r) |-> Change("Delete", r[i], {})]
          \o [i \in 1..Len(a) |-> Change("Add", a[i], valuesUnder(a[i], aa))]
          : <<r, a>> \in List(rk) \X List(ak) }

\* The Changes computeAndAddAttributeDeltas may leave in the request: a Delete per
\* name of old - new with the removed values, then an Add per name of new - old
\* with the added values.
computeAndAddAttributeDeltas(changes, old, new) ==
    LET ra == old \ new
        rk == Names(ra)
        aa == new \ old
        ak == Names(aa)
    IN  { changes
          \o [i \in 1..Len(r) |-> Change("Delete", r[i], valuesUnder(r[i], ra))]
          \o [i \in 1..Len(a) |-> Change("Add", a[i], valuesUnder(a[i], aa))]
          : <<r, a>> \in List(rk) \X List(ak) }

---------------------------------------------------------------------------
(* SpecDiff: the diff engines applied to every pair of attribute sets and    *)
(* every filter policy within the bounds.                                    *)

NoEntry == [exists |-> FALSE, attrs |-> {}]
NoState == [id |-> "", attributes |-> {}, object_classes |-> {}]

InitDiff ==
    /\ dn = "cn=foo,dc=x"
    /\ entry = NoEntry
    /\ d = NoState
    /\ attributesToSkip \in SUBSET ({"objectClass"} \cup PolicyNames)
    /\ attributesToSet \in SUBSET PolicyNames
    /\ os \in SetsUpTo(AttrUniverse, MaxAttrs)
    /\ ns \in SetsUpTo(AttrUniverse, MaxAttrs)
    /\ modify = <<>>
    /\ op = "init"
    /\ err = "nil"
    /\ calls = 0
    /\ sr = "none"
    /\ b = FALSE
    /\ matched = FALSE
    /\ owned = {}
    /\ nExternal = 0
    /\ InitAux

\* computeAndAddDeltas(modify, os, ns, attributesToSkip, attributesToSet) on an
\* empty request
Deltas ==
    /\ op = "init"
    /\ modify' \in computeAndAddDeltas(<<>>, os, ns, attributesToSkip, attributesToSet)
    /\ op' = "computeAndAddDeltas"
    /\ UNCHANGED <<dn, entry, d, attributesToSkip, attributesToSet, os, ns,
                   err, calls, sr, b, matched, owned, nExternal>>
    /\ objectClasses' = {}
    /\ UNCHANGED aux

\* computeAndAddAttributeDeltas(modify, os, ns) on an empty request
AttributeDeltas ==
    /\ op = "init"
    /\ modify' \in computeAndAddAttributeDeltas(<<>>, os, ns)
    /\ op' = "computeAndAddAttributeDeltas"
    /\ UNCHANGED <<dn, entry, d, attributesToSkip, attributesToSet, os, ns,
                   err, calls, sr, b, matched, owned, nExternal>>
    /\ objectClasses' = {}
    /\ UNCHANGED aux

NextDiff == Deltas \/ AttributeDeltas

SpecDiff == InitDiff /\ [][NextDiff]_vars

---------------------------------------------------------------------------
(* The directory: one entry, reached through the client's Search, Add,       *)
(* Modify and Del.  A call answers with an LDAP result code; "nil" is        *)
(* success.                                                                  *)

NoSuchObject == "32"            \* the result code the reads test for
NoSuchAttribute == "16"
AttributeOrValueExists == "20"
NotAllowedOnRDN == "67"
EntryAlreadyExists == "68"
ErrorNetwork == "200"           \* any failure that is not a verdict on the request

RECURSIVE IndexOf(_, _, _)
\* the first position of character c in s from position i on, Len(s) + 1 if none
IndexOf(s, c, i) ==
    IF i > Len(s) THEN Len(s) + 1
    ELSE IF SubSeq(s, i, i) = c THEN i
    ELSE IndexOf(s, c, i + 1)

\* the naming attribute of an entry: the pair its DN starts with
RDNPair(name) ==
    LET eq == IndexOf(name, "=", 1)
        comma == IndexOf(name, ",", 1)
    IN  <<SubSeq(name, 1, eq - 1), SubSeq(name, eq + 1, comma - 1)>>

\* PartialAttribute values of an operation as pairs of the entry
PairsOf(k, vals) == {<<k, v>> : v \in vals}

\* one modification of a modify request applied to the attributes of the entry
ApplyChange(attrs, c) ==
    LET k == c.Type
        pairs == PairsOf(k, c.Vals)
        under == {q \in attrs : q[1] = k}
    IN  CASE c.Operation = "Add" ->
                IF c.Vals = {} \/ pairs \cap attrs # {}
                THEN [err |-> AttributeOrValueExists, attrs |-> attrs]
                ELSE [err |-> "nil", attrs |-> attrs \cup pairs]
          [] c.Operation = "Delete" ->
                IF c.Vals = {}
                THEN IF under = {}
                     THEN [err |-> NoSuchAttribute, attrs |-> attrs]
                     ELSE [err |-> "nil", attrs |-> attrs \ under]
                ELSE IF ~(pairs \subseteq attrs)
                     THEN [err |-> NoSuchAttribute, attrs |-> attrs]
                     ELSE [err |-> "nil", attrs |-> attrs \ pairs]
          [] c.Operation = "Replace" ->
                [err |-> "nil", attrs |-> (attrs \ under) \cup pairs]

RECURSIVE ApplyChanges(_, _)
\* the modifications in order, stopping at the first that is refused
ApplyChanges(attrs, changes) ==
    IF changes = <<>> THEN [err |-> "nil", attrs |-> attrs]
    ELSE LET r == ApplyChange(attrs, Head(changes))
         IN  IF r.err # "nil" THEN r ELSE ApplyChanges(r.attrs, Tail(changes))

\* the failures a call may meet whatever it asks
Faults == IF nExternal < MaxExternal THEN {ErrorNetwork} ELSE {}

\* client.Search with the DN as base and scope base object
Search(e) == {IF e.exists THEN "nil" ELSE NoSuchObject} \cup Faults

\* client.Modify: all modifications or none; the naming value stays in the entry
Modify(e, name, changes) ==
    LET r == ApplyChanges(e.attrs, changes)
        verdict == IF ~e.exists THEN [err |-> NoSuchObject, entry |-> e]
                   ELSE IF r.err # "nil" THEN [err |-> r.err, entry |-> e]
                   ELSE IF RDNPair(name) \notin r.attrs
                        THEN [err |-> NotAllowedOnRDN, entry |-> e]
                   ELSE [err |-> "nil", entry |-> [exists |-> TRUE, attrs |-> r.attrs]]
    IN  {verdict} \cup {[err |-> f, entry |-> e] : f \in Faults}

\* client.Add: the entry with the attributes of the request and its naming value
Add(e, name, attributes) ==
    LET verdict == IF e.exists THEN [err |-> EntryAlreadyExists, entry |-> e]
                   ELSE [err |-> "nil",
                         entry |-> [exists |-> TRUE,
                                    attrs |-> attributes \cup {RDNPair(name)}]]
    IN  {verdict} \cup {[err |-> f, entry |-> e] : f \in Faults}

\* client.Del
Del(e) ==
    LET verdict == IF e.exists THEN [err |-> "nil", entry |-> NoEntry]
                   ELSE [err |-> NoSuchObject, entry |-> e]
    IN  {verdict} \cup {[err |-> f, entry |-> e] : f \in Faults}

---------------------------------------------------------------------------
(* The configurations and the entries a behaviour starts from. *)

\* the pairs the configuration of a resource declares
DesiredUniverse == {<<"cn", "foo">>, <<"cn", "bar">>, <<"mail", "a">>, <<"mail", "b">>}

\* the attribute sets a configuration declares
DesiredSets == SetsUpTo(DesiredUniverse, MaxDesired)

\* the values of object_classes a configuration declares
ClassSets == {{"top"}, {"top", "person"}}

\* the entry as others may have made it before the resource is declared
InitialEntries ==
    {NoEntry}
    \cup { [exists |-> TRUE,
            attrs |-> {RDNPair("cn=foo,dc=x"), <<"objectClass", "top">>} \cup F]
           : F \in {{}, {<<"mail", "a">>}} }

\* the pairs others add to the entry or remove from it
ExternalPairs == Wire({<<"cn", "bar">>, <<"mail", "a">>, <<"mail", "b">>})

---------------------------------------------------------------------------
(* ldap_object: the full-ownership resource. *)

\* the attributes of the Add request of create: the classes, then every declared
\* pair the filter policy lets through, encoded
createAttributes(new, classes, skip, set) ==
    PairsOf("objectClass", classes)
    \cup Wire({p \in new : /\ ~stringSliceContains(skip, p[1])
                           /\ ~(set # {} /\ ~stringSliceContains(set, p[1]))})

\* readAttributes with a slip: the value the DN starts with is left out however
\* many values the attribute has.
readAttributes_AnyCount(e, name, skip, set) ==
    UNION { LET values == {q[2] : q \in {r \in e.attrs : r[1] = k}}
            IN  IF stringSliceContains(skip, k) THEN {}
                ELSE IF set # {} /\ ~stringSliceContains(set, k) THEN {}
                ELSE PairsOf(k, {v \in values : ~HasPrefix(name, k \o "=" \o v)})
            : k \in Names(e.attrs) }

\* the loop of readLDAPObject over sr.Entries[0].Attributes
readAttributes(e, name, skip, set) ==
    UNION { LET values == {q[2] : q \in {r \in e.attrs : r[1] = k}}
            IN  IF stringSliceContains(skip, k) THEN {}
                ELSE IF set # {} /\ ~stringSliceContains(set, k) THEN {}
                ELSE IF Cardinality(values) = 1
                        /\ \A v \in values : HasPrefix(name, k \o "=" \o v)
                     THEN {}
                ELSE PairsOf(k, values)
            : k \in Names(e.attrs) }

\* d.SetId(""): a resource without an ID is gone from the state
SetIdEmpty(dd) == NoState

\* readLDAPObject(d, meta, updateState) with the answer of its search: the
\* state it leaves and the error it returns
readLDAPObject(dd, e, name, answer, updateState, skip, set) ==
    IF answer = NoSuchObject /\ updateState
    THEN [d |-> SetIdEmpty(dd), err |-> "nil"]
    ELSE IF answer # "nil"
    THEN [d |-> dd, err |-> answer]
    ELSE [d |-> [id |-> name,
                 object_classes |-> {q[2] : q \in {r \in e.attrs : r[1] = "objectClass"}},
                 attributes |-> readAttributes(e, name, skip, set)],
          err |-> "nil"]

\* resourceLDAPObjectCreate with a slip: d.SetId(dn) comes before client.Add.
resourceLDAPObjectCreate_SetIdFirst ==
    /\ d.id = ""
    /\ \E new \in DesiredSets, classes \in ClassSets :
       \E added \in Add(entry, dn,
                        createAttributes(new, classes, attributesToSkip, attributesToSet)) :
       \E answer \in Search(added.entry) :
          LET back == readLDAPObject([d EXCEPT !.id = dn], added.entry, dn, answer, TRUE,
                                     attributesToSkip, attributesToSet)
          IN  /\ sr' = IF added.err # "nil" THEN "none" ELSE answer
              /\ os' = {}
              /\ ns' = new
              /\ modify' = <<>>
              /\ calls' = 1
              /\ entry' = added.entry
              /\ d' = IF added.err # "nil" THEN [d EXCEPT !.id = dn] ELSE back.d
              /\ err' = IF added.err # "nil" THEN added.err ELSE back.err
    /\ nExternal' = IF err' = ErrorNetwork THEN nExternal + 1 ELSE nExternal
    /\ op' = "create"
    /\ b' = FALSE
    /\ matched' = FALSE
    /\ UNCHANGED <<dn, attributesToSkip, attributesToSet, owned>>
    /\ objectClasses' = {}
    /\ UNCHANGED aux

resourceLDAPObjectCreate ==
    /\ d.id = ""
    /\ \E new \in DesiredSets, classes \in ClassSets :
       \E added \in Add(entry, dn,
                        createAttributes(new, classes, attributesToSkip, attributesToSet)) :
       \E answer \in Search(added.entry) :
          LET back == readLDAPObject([d EXCEPT !.id = dn], added.entry, dn, answer, TRUE,
                                     attributesToSkip, attributesToSet)
          IN  /\ sr' = IF added.err # "nil" THEN "none" ELSE answer
              /\ os' = {}
              /\ ns' = new
              /\ modify' = <<>>
              /\ calls' = 1
              /\ entry' = added.entry
              /\ d' = IF added.err # "nil" THEN d ELSE back.d
              /\ err' = IF added.err # "nil" THEN added.err ELSE back.err
    /\ nExternal' = IF err' = ErrorNetwork THEN nExternal + 1 ELSE nExternal
    /\ op' = "create"
    /\ b' = FALSE
    /\ matched' = FALSE
    /\ UNCHANGED <<dn, attributesToSkip, attributesToSet, owned>>
    /\ objectClasses' = {}
    /\ UNCHANGED aux

resourceLDAPObjectRead ==
    /\ d.id # ""
    /\ \E answer \in Search(entry) :
          LET back == readLDAPObject(d, entry, dn, answer, TRUE,
                                     attributesToSkip, attributesToSet)
          IN  /\ sr' = answer
              /\ d' = back.d
              /\ err' = back.err
    /\ os' = d.attributes
    /\ ns' = d.attributes
    /\ modify' = <<>>
    /\ calls' = 0
    /\ nExternal' = IF err' = ErrorNetwork THEN nExternal + 1 ELSE nExternal
    /\ op' = "read"
    /\ b' = FALSE
    /\ matched' = FALSE
    /\ UNCHANGED <<dn, entry, attributesToSkip, attributesToSet, owned>>
    /\ objectClasses' = {}
    /\ UNCHANGED aux

\* resourceLDAPObjectImport: the DN is the given ID, then a read
resourceLDAPObjectImport ==
    /\ d.id = ""
    /\ \E answer \in Search(entry) :
          LET back == readLDAPObject([d EXCEPT !.id = dn], entry, dn, answer, TRUE,
                                     attributesToSkip, attributesToSet)
          IN  /\ sr' = answer
              /\ d' = back.d
              /\ err' = back.err
    /\ os' = {}
    /\ ns' = {}
    /\ modify' = <<>>
    /\ calls' = 0
    /\ nExternal' = IF err' = ErrorNetwork THEN nExternal + 1 ELSE nExternal
    /\ op' = "import"
    /\ b' = FALSE
    /\ matched' = FALSE
    /\ UNCHANGED <<dn, entry, attributesToSkip, attributesToSet, owned>>
    /\ objectClasses' = {}
    /\ UNCHANGED aux

resourceLDAPObjectExists ==
    /\ d.id # ""
    /\ \E answer \in Search(entry) :
          /\ sr' = answer
          /\ b' = (answer = "nil")
          /\ err' = IF answer = NoSuchObject THEN "nil" ELSE answer
    /\ nExternal' = IF err' = ErrorNetwork THEN nExternal + 1 ELSE nExternal
    /\ os' = {}
    /\ ns' = {}
    /\ modify' = <<>>
    /\ calls' = 0
    /\ matched' = FALSE
    /\ op' = "exists"
    /\ UNCHANGED <<dn, entry, d, attributesToSkip, attributesToSet, owned>>
    /\ objectClasses' = {}
    /\ UNCHANGED aux

\* resourceLDAPObjectUpdate with a slip: the objectClass Replace goes to the
\* directory in a request of its own, ahead of the request with the directives of
\* the attributes.
resourceLDAPObjectUpdate_TwoCalls ==
    /\ d.id # ""
    /\ \E new \in DesiredSets, classes \in ClassSets :
       LET classChange == IF d.object_classes # classes
                          THEN <<Change("Replace", "objectClass", classes)>>
                          ELSE <<>>
           requests == IF d.attributes # new
                       THEN computeAndAddDeltas(<<>>, d.attributes, new,
                                                attributesToSkip, attributesToSet)
                       ELSE {<<>>}
       IN  \E request \in requests :
           \E first \in (IF Len(classChange) > 0
                         THEN Modify(entry, d.id, classChange)
                         ELSE {[err |-> "nil", entry |-> entry]}) :
           \E modified \in (IF first.err = "nil" /\ Len(request) > 0
                            THEN Modify(first.entry, d.id, request)
                            ELSE {first}) :
           \E answer \in Search(modified.entry) :
              LET back == readLDAPObject(d, modified.entry, dn, answer, TRUE,
                                         attributesToSkip, attributesToSet)
              IN  /\ sr' = IF modified.err # "nil" THEN "none" ELSE answer
                  /\ os' = d.attributes
                  /\ ns' = new
                  /\ modify' = classChange \o request
                  /\ objectClasses' = classes
                  /\ calls' = (IF Len(classChange) > 0 THEN 1 ELSE 0)
                              + (IF first.err = "nil" /\ Len(request) > 0 THEN 1 ELSE 0)
                  /\ entry' = modified.entry
                  /\ d' = IF modified.err # "nil" THEN d ELSE back.d
                  /\ err' = IF modified.err # "nil" THEN modified.err ELSE back.err
    /\ matched' = ( /\ entry.exists
                    /\ d.attributes = readAttributes(entry, dn, attributesToSkip,
                                                     attributesToSet) )
    /\ nExternal' = IF err' = ErrorNetwork THEN nExternal + 1 ELSE nExternal
    /\ op' = "update"
    /\ b' = FALSE
    /\ UNCHANGED <<dn, attributesToSkip, attributesToSet, owned>>
    /\ UNCHANGED aux

\* resourceLDAPObjectUpdate with a slip: the error of client.Modify is logged and
\* not returned, so the read-back runs whatever the directory answered.
resourceLDAPObjectUpdate_NoReturn ==
    /\ d.id # ""
    /\ \E new \in DesiredSets, classes \in ClassSets :
       LET classChange == IF d.object_classes # classes
                          THEN <<Change("Replace", "objectClass", classes)>>
                          ELSE <<>>
           requests == IF d.attributes # new
                       THEN computeAndAddDeltas(classChange, d.attributes, new,
                                                attributesToSkip, attributesToSet)
                       ELSE {classChange}
       IN  \E request \in requests :
           \E modified \in (IF Len(request) > 0
                            THEN Modify(entry, d.id, request)
                            ELSE {[err |-> "nil", entry |-> entry]}) :
           \E answer \in Search(modified.entry) :
              LET back == readLDAPObject(d, modified.entry, dn, answer, TRUE,
                                         attributesToSkip, attributesToSet)
              IN  /\ sr' = answer
                  /\ os' = d.attributes
                  /\ ns' = new
                  /\ modify' = request
                  /\ objectClasses' = classes
                  /\ calls' = IF Len(request) > 0 THEN 1 ELSE 0
                  /\ entry' = modified.entry
                  /\ d' = back.d
                  /\ err' = back.err
    /\ matched' = ( /\ entry.exists
                    /\ d.attributes = readAttributes(entry, dn, attributesToSkip,
                                                     attributesToSet) )
    /\ nExternal' = IF err' = ErrorNetwork THEN nExternal + 1 ELSE nExternal
    /\ op' = "update"
    /\ b' = FALSE
    /\ UNCHANGED <<dn, attributesToSkip, attributesToSet, owned>>
    /\ UNCHANGED aux

resourceLDAPObjectUpdate ==
    /\ d.id # ""
    /\ \E new \in DesiredSets, classes \in ClassSets :
       LET classChange == IF d.object_classes # classes
                          THEN <<Change("Replace", "objectClass", classes)>>
                          ELSE <<>>
           requests == IF d.attributes # new
                       THEN computeAndAddDeltas(classChange, d.attributes, new,
                                                attributesToSkip, attributesToSet)
                       ELSE {classChange}
       IN  \E request \in requests :
           \E modified \in (IF Len(request) > 0
                            THEN Modify(entry, d.id, request)
                            ELSE {[err |-> "nil", entry |-> entry]}) :
           \E answer \in Search(modified.entry) :
              LET back == readLDAPObject(d, modified.entry, dn, answer, TRUE,
                                         attributesToSkip, attributesToSet)
              IN  /\ sr' = IF modified.err # "nil" THEN "none" ELSE answer
                  /\ os' = d.attributes
                  /\ ns' = new
                  /\ modify' = request
                  /\ objectClasses' = classes
                  /\ calls' = IF Len(request) > 0 THEN 1 ELSE 0
                  /\ entry' = modified.entry
                  /\ d' = IF modified.err # "nil" THEN d ELSE back.d
                  /\ err' = IF modified.err # "nil" THEN modified.err ELSE back.err
    /\ matched' = ( /\ entry.exists
                    /\ d.attributes = readAttributes(entry, dn, attributesToSkip,
                                                     attributesToSet) )
    /\ nExternal' = IF err' = ErrorNetwork THEN nExternal + 1 ELSE nExternal
    /\ op' = "update"
    /\ b' = FALSE
    /\ UNCHANGED <<dn, attributesToSkip, attributesToSet, owned>>
    /\ UNCHANGED aux

\* after a delete that returned no error the resource is gone from the state
resourceLDAPObjectDelete ==
    /\ d.id # ""
    /\ \E deleted \in Del(entry) :
          /\ entry' = deleted.entry
          /\ err' = deleted.err
          /\ d' = IF deleted.err = "nil" THEN NoState ELSE d
    /\ sr' = "none"
    /\ os' = d.attributes
    /\ ns' = {}
    /\ modify' = <<>>
    /\ calls' = 1
    /\ nExternal' = IF err' = ErrorNetwork THEN nExternal + 1 ELSE nExternal
    /\ op' = "delete"
    /\ b' = FALSE
    /\ matched' = FALSE
    /\ UNCHANGED <<dn, attributesToSkip, attributesToSet, owned>>
    /\ objectClasses' = {}
    /\ UNCHANGED aux

---------------------------------------------------------------------------
(* Changes made to the entry by other means. *)

\* what the variables that describe the last operation hold when the last step
\* was none of the resource
NoOperation ==
    /\ os' = {}
    /\ ns' = {}
    /\ modify' = <<>>
    /\ err' = "nil"
    /\ calls' = 0
    /\ sr' = "none"
    /\ b' = FALSE
    /\ matched' = FALSE

ExternalAdd ==
    /\ nExternal < MaxExternal
    /\ entry.exists
    /\ \E p \in ExternalPairs \ entry.attrs :
          entry' = [entry EXCEPT !.attrs = @ \cup {p}]
    /\ nExternal' = nExternal + 1
    /\ op' = "external"
    /\ NoOperation
    /\ UNCHANGED <<dn, d, attributesToSkip, attributesToSet, owned>>
    /\ objectClasses' = {}
    /\ UNCHANGED aux

ExternalRemove ==
    /\ nExternal < MaxExternal
    /\ entry.exists
    /\ \E p \in (entry.attrs \cap ExternalPairs) \ {RDNPair(dn)} :
          entry' = [entry EXCEPT !.attrs = @ \ {p}]
    /\ nExternal' = nExternal + 1
    /\ op' = "external"
    /\ NoOperation
    /\ UNCHANGED <<dn, d, attributesToSkip, attributesToSet, owned>>
    /\ objectClasses' = {}
    /\ UNCHANGED aux

ExternalDelete ==
    /\ nExternal < MaxExternal
    /\ entry.exists
    /\ entry' = NoEntry
    /\ nExternal' = nExternal + 1
    /\ op' = "external"
    /\ NoOperation
    /\ UNCHANGED <<dn, d, attributesToSkip, attributesToSet, owned>>
    /\ objectClasses' = {}
    /\ UNCHANGED aux

---------------------------------------------------------------------------
(* Spec: ldap_object reconciling one entry that others change too. *)

Init ==
    /\ dn = "cn=foo,dc=x"
    /\ entry \in InitialEntries
    /\ d = NoState
    /\ attributesToSkip \in {{"objectClass"} \cup S : S \in SUBSET PolicyNames}
    /\ attributesToSet \in SUBSET PolicyNames
    /\ os = {}
    /\ ns = {}
    /\ modify = <<>>
    /\ op = "init"
    /\ err = "nil"
    /\ calls = 0
    /\ sr = "none"
    /\ b = FALSE
    /\ matched = FALSE
    /\ owned = {}
    /\ nExternal = 0
    /\ InitAux

Next ==
    \/ resourceLDAPObjectCreate
    \/ resourceLDAPObjectImport
    \/ resourceLDAPObjectExists
    \/ resourceLDAPObjectRead
    \/ resourceLDAPObjectUpdate
    \/ resourceLDAPObjectDelete
    \/ ExternalAdd
    \/ ExternalRemove
    \/ ExternalDelete

Spec == Init /\ [][Next]_vars

---------------------------------------------------------------------------
(* ldap_object_attributes: the partial-ownership resource. *)

\* createChanges with a slip: the request of create replaces the attribute, as
\* the update of the full-ownership resource does.
createChanges_Replace(new) ==
    { [i \in 1..Len(m) |-> Change("Replace", m[i], valuesUnder(m[i], new))]
      : m \in List(Names(new)) }

\* the modify request of create: an Add per declared name with its encoded values
createChanges(new) ==
    { [i \in 1..Len(m) |-> Change("Add", m[i], valuesUnder(m[i], new))]
      : m \in List(Names(new)) }

\* ldapSet with a slip: the value the DN starts with is left out however many
\* values the attribute has.
ldapSet_AnyCount(e, name) ==
    UNION { LET values == {q[2] : q \in {r \in e.attrs : r[1] = k}}
            IN  PairsOf(k, {v \in values : ~HasPrefix(name, k \o "=" \o v)})
            : k \in Names(e.attrs) }

\* ldapSet: every pair of the entry but a single-valued attribute the DN starts with
ldapSet(e, name) ==
    UNION { LET values == {q[2] : q \in {r \in e.attrs : r[1] = k}}
            IN  IF Cardinality(values) = 1
                   /\ \A v \in values : HasPrefix(name, k \o "=" \o v)
                THEN {}
                ELSE PairsOf(k, values)
            : k \in Names(e.attrs) }

\* resourceLDAPObjectAttributesRead with the answer of its search, old and new
\* being what d.GetChange("attributes") gives (both the recorded set when
\* nothing changes): the state it leaves and the error it returns
AttributesReadOutcome(dd, e, name, answer, old, new) ==
    IF answer # "nil"
    THEN [d |-> IF answer = NoSuchObject THEN SetIdEmpty(dd) ELSE dd, err |-> answer]
    ELSE LET unionSet == old \cup new
             set == unionSet \cap ldapSet(e, name)
         IN  IF set = {}
             THEN [d |-> SetIdEmpty(dd), err |-> "nil"]
             ELSE [d |-> [dd EXCEPT !.attributes = set, !.id = name], err |-> "nil"]

resourceLDAPObjectAttributesCreate ==
    /\ d.id = ""
    /\ \E new \in DesiredSets :
       \E request \in createChanges(new) :
       \E modified \in Modify(entry, dn, request) :
       \E answer \in Search(modified.entry) :
          LET back == AttributesReadOutcome(d, modified.entry, dn, answer,
                                                       {}, new)
          IN  /\ os' = {}
              /\ ns' = new
              /\ modify' = request
              /\ entry' = modified.entry
              /\ sr' = IF modified.err # "nil" THEN "none" ELSE answer
              /\ d' = IF modified.err # "nil" THEN d ELSE back.d
              /\ err' = IF modified.err # "nil" THEN modified.err ELSE back.err
    /\ calls' = 1
    /\ owned' = owned \cup os' \cup ns'
    /\ nExternal' = IF err' = ErrorNetwork THEN nExternal + 1 ELSE nExternal
    /\ op' = "create"
    /\ b' = FALSE
    /\ matched' = FALSE
    /\ UNCHANGED <<dn, attributesToSkip, attributesToSet>>
    /\ objectClasses' = {}
    /\ UNCHANGED aux

resourceLDAPObjectAttributesRead ==
    /\ d.id # ""
    /\ \E answer \in Search(entry) :
          LET back == AttributesReadOutcome(d, entry, dn, answer,
                                                       d.attributes, d.attributes)
          IN  /\ sr' = answer
              /\ d' = back.d
              /\ err' = back.err
    /\ os' = d.attributes
    /\ ns' = d.attributes
    /\ modify' = <<>>
    /\ calls' = 0
    /\ owned' = owned \cup os' \cup ns'
    /\ nExternal' = IF err' = ErrorNetwork THEN nExternal + 1 ELSE nExternal
    /\ op' = "read"
    /\ b' = FALSE
    /\ matched' = FALSE
    /\ UNCHANGED <<dn, entry, attributesToSkip, attributesToSet>>
    /\ objectClasses' = {}
    /\ UNCHANGED aux

resourceLDAPObjectAttributesUpdate ==
    /\ d.id # ""
    /\ \E new \in DesiredSets :
       \E request \in (IF d.attributes # new
                       THEN computeAndAddAttributeDeltas(<<>>, d.attributes, new)
                       ELSE {<<>>}) :
       \E modified \in (IF Len(request) > 0
                        THEN Modify(entry, dn, request)
                        ELSE {[err |-> "nil", entry |-> entry]}) :
       \E answer \in Search(modified.entry) :
          LET back == AttributesReadOutcome(d, modified.entry, dn, answer,
                                                       d.attributes, new)
          IN  /\ os' = d.attributes
              /\ ns' = new
              /\ modify' = request
              /\ calls' = IF Len(request) > 0 THEN 1 ELSE 0
              /\ entry' = modified.entry
              /\ sr' = IF modified.err # "nil" THEN "none" ELSE answer
              /\ d' = IF modified.err # "nil" THEN d ELSE back.d
              /\ err' = IF modified.err # "nil" THEN modified.err ELSE back.err
    /\ owned' = owned \cup os' \cup ns'
    /\ nExternal' = IF err' = ErrorNetwork THEN nExternal + 1 ELSE nExternal
    /\ matched' = (entry.exists /\ d.attributes \subseteq entry.attrs)
    /\ op' = "update"
    /\ b' = FALSE
    /\ UNCHANGED <<dn, attributesToSkip, attributesToSet>>
    /\ objectClasses' = {}
    /\ UNCHANGED aux

\* after a delete that returned no error the resource is gone from the state
resourceLDAPObjectAttributesDelete ==
    /\ d.id # ""
    /\ \E request \in computeAndAddAttributeDeltas(<<>>, d.attributes, {}) :
       \E modified \in (IF Len(request) > 0
                        THEN Modify(entry, dn, request)
                        ELSE {[err |-> "nil", entry |-> entry]}) :
          /\ modify' = request
          /\ calls' = IF Len(request) > 0 THEN 1 ELSE 0
          /\ entry' = modified.entry
          /\ err' = modified.err
          /\ d' = IF modified.err = "nil" THEN NoState ELSE d
    /\ os' = d.attributes
    /\ ns' = {}
    /\ sr' = "none"
    /\ owned' = owned \cup os' \cup ns'
    /\ nExternal' = IF err' = ErrorNetwork THEN nExternal + 1 ELSE nExternal
    /\ op' = "delete"
    /\ b' = FALSE
    /\ matched' = FALSE
    /\ UNCHANGED <<dn, attributesToSkip, attributesToSet>>
    /\ objectClasses' = {}
    /\ UNCHANGED aux

\* the entry the attributes are added to: it is there before the resource
InitAttributes ==
    /\ dn = "cn=foo,dc=x"
    /\ entry \in InitialEntries
    /\ d = NoState
    /\ attributesToSkip = {}
    /\ attributesToSet = {}
    /\ os = {}
    /\ ns = {}
    /\ modify = <<>>
    /\ op = "init"
    /\ err = "nil"
    /\ calls = 0
    /\ sr = "none"
    /\ b = FALSE
    /\ matched = FALSE
    /\ owned = {}
    /\ nExternal = 0
    /\ InitAux

NextAttributes ==
    \/ resourceLDAPObjectAttributesCreate
    \/ resourceLDAPObjectAttributesRead
    \/ resourceLDAPObjectAttributesUpdate
    \/ resourceLDAPObjectAttributesDelete
    \/ ExternalAdd
    \/ ExternalRemove
    \/ ExternalDelete

SpecAttributes == InitAttributes /\ [][NextAttributes]_vars

---------------------------------------------------------------------------
(* ldap_object_attributes in its earlier revision. *)

\* ldapSet of the earlier revision: every value of every attribute of the entry
ldapSetV1(e) ==
    UNION { PairsOf(k, {q[2] : q \in {r \in e.attrs : r[1] = k}}) : k \in Names(e.attrs) }

\* resourceLDAPObjectAttributesRead of the earlier revision: the union of old and
\* new is intersected with itself, the set read from the entry is not used
AttributesReadOutcomeV1(dd, e, name, answer, old, new) ==
    IF answer # "nil"
    THEN [d |-> IF answer = NoSuchObject THEN SetIdEmpty(dd) ELSE dd, err |-> answer]
    ELSE LET unionSet == old \cup new
             set == unionSet \cap unionSet
         IN  IF set = {}
             THEN [d |-> SetIdEmpty(dd), err |-> "nil"]
             ELSE [d |-> [dd EXCEPT !.attributes = set, !.id = name], err |-> "nil"]

\* create of the earlier revision sets the ID and reads nothing back: the state
\* holds the attributes as declared
resourceLDAPObjectAttributesCreateV1 ==
    /\ d.id = ""
    /\ \E new \in DesiredSets :
       \E request \in createChanges(new) :
       \E modified \in Modify(entry, dn, request) :
          /\ ns' = new
          /\ modify' = request
          /\ entry' = modified.entry
          /\ err' = modified.err
          /\ d' = IF modified.err # "nil" THEN d
                  ELSE [id |-> dn, attributes |-> new, object_classes |-> {}]
    /\ os' = {}
    /\ sr' = "none"
    /\ calls' = 1
    /\ owned' = owned \cup os' \cup ns'
    /\ nExternal' = IF err' = ErrorNetwork THEN nExternal + 1 ELSE nExternal
    /\ op' = "create"
    /\ b' = FALSE
    /\ matched' = FALSE
    /\ UNCHANGED <<dn, attributesToSkip, attributesToSet>>
    /\ objectClasses' = {}
    /\ UNCHANGED aux

resourceLDAPObjectAttributesReadV1 ==
    /\ d.id # ""
    /\ \E answer \in Search(entry) :
          LET back == AttributesReadOutcomeV1(d, entry, dn, answer,
                                                         d.attributes, d.attributes)
          IN  /\ sr' = answer
              /\ d' = back.d
              /\ err' = back.err
    /\ os' = d.attributes
    /\ ns' = d.attributes
    /\ modify' = <<>>
    /\ calls' = 0
    /\ owned' = owned \cup os' \cup ns'
    /\ nExternal' = IF err' = ErrorNetwork THEN nExternal + 1 ELSE nExternal
    /\ op' = "read"
    /\ b' = FALSE
    /\ matched' = FALSE
    /\ UNCHANGED <<dn, entry, attributesToSkip, attributesToSet>>
    /\ objectClasses' = {}
    /\ UNCHANGED aux

\* update of the earlier revision diffs with computeAndAddDeltas and no filter,
\* then calls resourceLDAPObjectRead, the read of ldap_object: when its search
\* finds the entry it asks d for skip_attributes, which this resource's schema
\* does not have, and the type assertion on the nil it gets panics
resourceLDAPObjectAttributesUpdateV1 ==
    /\ d.id # ""
    /\ \E new \in DesiredSets :
       \E request \in (IF d.attributes # new
                       THEN computeAndAddDeltas(<<>>, d.attributes, new, {}, {})
                       ELSE {<<>>}) :
       \E modified \in (IF Len(request) > 0
                        THEN Modify(entry, dn, request)
                        ELSE {[err |-> "nil", entry |-> entry]}) :
       \E answer \in Search(modified.entry) :
          /\ os' = d.attributes
          /\ ns' = new
          /\ modify' = request
          /\ calls' = IF Len(request) > 0 THEN 1 ELSE 0
          /\ entry' = modified.entry
          /\ sr' = IF modified.err # "nil" THEN "none" ELSE answer
          /\ d' = IF modified.err = "nil" /\ answer = NoSuchObject
                  THEN SetIdEmpty(d) ELSE d
          /\ err' = IF modified.err # "nil" THEN modified.err
                    ELSE IF answer = NoSuchObject THEN "nil"
                    ELSE IF answer # "nil" THEN answer
                    ELSE "panic"
    /\ owned' = owned \cup os' \cup ns'
    /\ nExternal' = IF err' = ErrorNetwork THEN nExternal + 1 ELSE nExternal
    /\ matched' = (entry.exists /\ d.attributes \subseteq entry.attrs)
    /\ op' = "update"
    /\ b' = FALSE
    /\ UNCHANGED <<dn, attributesToSkip, attributesToSet>>
    /\ objectClasses' = {}
    /\ UNCHANGED aux

resourceLDAPObjectAttributesDeleteV1 ==
    /\ d.id # ""
    /\ \E request \in computeAndAddDeltas(<<>>, d.attributes, {}, {}, {}) :
       \E modified \in (IF Len(request) > 0
                        THEN Modify(entry, dn, request)
                        ELSE {[err |-> "nil", entry |-> entry]}) :
          /\ modify' = request
          /\ calls' = IF Len(request) > 0 THEN 1 ELSE 0
          /\ entry' = modified.entry
          /\ err' = modified.err
          /\ d' = IF modified.err = "nil" THEN NoState ELSE d
    /\ os' = d.attributes
    /\ ns' = {}
    /\ sr' = "none"
    /\ owned' = owned \cup os' \cup ns'
    /\ nExternal' = IF err' = ErrorNetwork THEN nExternal + 1 ELSE nExternal
    /\ op' = "delete"
    /\ b' = FALSE
    /\ matched' = FALSE
    /\ UNCHANGED <<dn, attributesToSkip, attributesToSet>>
    /\ objectClasses' = {}
    /\ UNCHANGED aux

NextAttributesV1 ==
    \/ resourceLDAPObjectAttributesCreateV1
    \/ resourceLDAPObjectAttributesReadV1
    \/ resourceLDAPObjectAttributesUpdateV1
    \/ resourceLDAPObjectAttributesDeleteV1
    \/ ExternalAdd
    \/ ExternalRemove
    \/ ExternalDelete

SpecAttributesV1 == InitAttributes /\ [][NextAttributesV1]_vars

---------------------------------------------------------------------------
(* SpecResources: a behaviour of either resource.  The skip list of          *)
(* ldap_object always holds "objectClass"; ldap_object_attributes has no     *)
(* skip list, and the one of the newer revision is taken.                    *)

InitResources == Init \/ InitAttributes

\* the resource of the behaviour is ldap_object
IsObject == "objectClass" \in attributesToSkip

NextResources ==
    \/ IsObject /\ resourceLDAPObjectCreate
    \/ IsObject /\ resourceLDAPObjectRead
    \/ IsObject /\ resourceLDAPObjectImport
    \/ IsObject /\ resourceLDAPObjectExists
    \/ IsObject /\ resourceLDAPObjectUpdate
    \/ IsObject /\ resourceLDAPObjectDelete
    \/ ~IsObject /\ resourceLDAPObjectAttributesCreate
    \/ ~IsObject /\ resourceLDAPObjectAttributesRead
    \/ ~IsObject /\ resourceLDAPObjectAttributesUpdate
    \/ ~IsObject /\ resourceLDAPObjectAttributesDelete
    \/ ExternalAdd
    \/ ExternalRemove
    \/ ExternalDelete

SpecResources == InitResources /\ [][NextResources]_vars

---------------------------------------------------------------------------
(* SpecFilter: the three places of ldap_object that apply the filter policy, *)
(* each applied to every attribute set and policy within the bounds.         *)

\* the skip list create and read build: "objectClass", then skip_attributes
skipList == {"objectClass"} \cup attributesToSkip

\* the attribute loop of resourceLDAPObjectCreate on the declared set ns: entry
\* becomes what its Add request describes
CreateRequest ==
    /\ op = "init"
    /\ \E classes \in ClassSets :
          /\ d' = [d EXCEPT !.object_classes = classes]
          /\ entry' = [exists |-> TRUE,
                       attrs |-> createAttributes(ns, classes, skipList, attributesToSet)]
    /\ op' = "createRequest"
    /\ UNCHANGED <<dn, attributesToSkip, attributesToSet, os, ns, modify,
                   err, calls, sr, b, matched, owned, nExternal>>
    /\ objectClasses' = {}
    /\ UNCHANGED aux

\* readLDAPObject on an entry that holds os and its naming value
ReadBack ==
    /\ op = "init"
    /\ LET e == [exists |-> TRUE, attrs |-> Wire(os) \cup {RDNPair(dn)}]
       IN  /\ entry' = e
           /\ d' = readLDAPObject(d, e, dn, "nil", TRUE, skipList, attributesToSet).d
    /\ sr' = "nil"
    /\ op' = "readBack"
    /\ UNCHANGED <<dn, attributesToSkip, attributesToSet, os, ns, modify,
                   err, calls, b, matched, owned, nExternal>>
    /\ objectClasses' = {}
    /\ UNCHANGED aux

NextFilter == Deltas \/ CreateRequest \/ ReadBack

SpecFilter == InitDiff /\ [][NextFilter]_vars

---------------------------------------------------------------------------
(* SpecConverge: the request of computeAndAddDeltas sent to an entry that    *)
(* holds the old set.  What is looked at is the effect of the modifications  *)
(* on the attribute values, so the request is applied with ApplyChanges: the *)
(* naming constraint of the entry plays no part.                             *)

\* the pairs of a set the policy lets computeAndAddDeltas see
passing(S) == {p \in S : ~shouldSkipAttribute(p[1], attributesToSkip, attributesToSet)}

\* what the entry may hold under the names the policy hides: nothing, or every
\* such pair old or new mentions
hiddenSeeds == {{}, Wire((os \cup ns) \ passing(os \cup ns))}

\* an entry whose visible attributes are those of os, as the directory holds them
Seed ==
    /\ op = "init"
    /\ \E hidden \in hiddenSeeds :
          entry' = [exists |-> TRUE, attrs |-> Wire(passing(os)) \cup hidden]
    /\ op' = "seeded"
    /\ UNCHANGED <<dn, d, attributesToSkip, attributesToSet, os, ns, modify,
                   err, calls, sr, b, matched, owned, nExternal>>
    /\ objectClasses' = {}
    /\ UNCHANGED aux

\* computeAndAddDeltas(modify, os, ns, ...) and the request applied as one modify
ApplyDeltas ==
    /\ op = "seeded"
    /\ \E request \in computeAndAddDeltas(<<>>, os, ns, attributesToSkip, attributesToSet) :
          LET r == ApplyChanges(entry.attrs, request)
          IN  /\ modify' = request
              /\ err' = r.err
              /\ entry' = [entry EXCEPT !.attrs = IF r.err = "nil" THEN r.attrs ELSE @]
    /\ calls' = 1
    /\ op' = "applied"
    /\ UNCHANGED <<dn, d, attributesToSkip, attributesToSet, os, ns,
                   sr, b, matched, owned, nExternal>>
    /\ objectClasses' = {}
    /\ UNCHANGED aux

NextConverge == Seed \/ ApplyDeltas

SpecConverge == InitDiff /\ [][NextConverge]_vars

---------------------------------------------------------------------------
(* SpecHash: attributeHash on every checksum, for both sizes of int. *)

\* an integer kept to w bits, two's complement
wrap(v, w) ==
    LET m == v % (2 ^ w)
    IN  IF m >= 2 ^ (w - 1) THEN m - 2 ^ w ELSE m

\* attributeHash with a slip: the test of -h is missing.
attributeHash_NoSecondTest(c, w) ==
    LET hh == wrap(c, w)
    IN  IF hh >= 0 THEN hh ELSE wrap(-hh, w)

\* attributeHash from the checksum of the buffer on: h := int(checksum), then the
\* two tests
attributeHash(c, w) ==
    LET hh == wrap(c, w)
    IN  IF hh >= 0 THEN hh
        ELSE IF wrap(-hh, w) >= 0 THEN wrap(-hh, w)
        ELSE 0

InitHash ==
    /\ dn = "cn=foo,dc=x"
    /\ entry = NoEntry
    /\ d = NoState
    /\ attributesToSkip = {}
    /\ attributesToSet = {}
    /\ os = {}
    /\ ns = {}
    /\ modify = <<>>
    /\ op = "init"
    /\ err = "nil"
    /\ calls = 0
    /\ sr = "none"
    /\ b = FALSE
    /\ matched = FALSE
    /\ owned = {}
    /\ nExternal = 0
    /\ checksum \in 0..(2 ^ ChecksumBits - 1)
    /\ intSize \in {ChecksumBits, 2 * ChecksumBits}
    /\ h = -1
    /\ searchDepthInput = "subtree"
    /\ searchResult = <<>>
    /\ data = NoData
    /\ objectClasses = {}
    /\ reconcilers = <<>>
    /\ initial = [exists |-> FALSE, attrs |-> {}]

Hash ==
    /\ op = "init"
    /\ h' = attributeHash(checksum, intSize)
    /\ op' = "attributeHash"
    /\ UNCHANGED <<dn, entry, d, attributesToSkip, attributesToSet, os, ns, modify,
                   err, calls, sr, b, matched, owned, nExternal,
                   checksum, intSize, searchDepthInput, searchResult, data,
                   reconcilers, initial>>
    /\ objectClasses' = {}

NextHash == Hash

SpecHash == InitHash /\ [][NextHash]_vars

---------------------------------------------------------------------------
(* SpecData: the data source ldap_object, one read of every configuration   *)
(* and search result within the bounds.                                      *)

\* the names of each search scope: 0 base object, 1 single level, 2 whole subtree
SEARCH_DEPTHS ==
    [scope \in 0..2 |->
        CASE scope = 2 -> {"sub", "subtree", "wholeSubtree"}
          [] scope = 0 -> {"base", "baseObject"}
          [] scope = 1 -> {"one", "singleLevel"}]

UpperCase == "ABCDEFGHIJKLMNOPQRSTUVWXYZ"
LowerCase == "abcdefghijklmnopqrstuvwxyz"

\* one character in lower case
lowerChar(c) ==
    LET at == {i \in 1..Len(UpperCase) : SubSeq(UpperCase, i, i) = c}
    IN  IF at = {} THEN c ELSE SubSeq(LowerCase, CHOOSE i \in at : TRUE, CHOOSE i \in at : TRUE)

RECURSIVE ToLower(_)
\* strings.ToLower
ToLower(str) ==
    IF Len(str) = 0 THEN ""
    ELSE lowerChar(SubSeq(str, 1, 1)) \o ToLower(SubSeq(str, 2, Len(str)))

\* normalizeSearchDepth with a slip: a name that is not known means whole subtree.
normalizeSearchDepth_Default(search) ==
    LET lowerSearch == ToLower(search)
        vals == {val \in DOMAIN SEARCH_DEPTHS :
                    \E a \in SEARCH_DEPTHS[val] : ToLower(a) = lowerSearch}
    IN  IF vals = {} THEN 2 ELSE CHOOSE val \in vals : TRUE

normalizeSearchDepth(search) ==
    LET lowerSearch == ToLower(search)
        vals == {val \in DOMAIN SEARCH_DEPTHS :
                    \E a \in SEARCH_DEPTHS[val] : ToLower(a) = lowerSearch}
    IN  IF vals = {} THEN -1 ELSE CHOOSE val \in vals : TRUE

\* the values of "depth" a configuration may give
DepthInputs ==
    {"sub", "subtree", "wholeSubtree", "SubTree", "base", "baseObject", "BASE",
     "one", "singleLevel", "onelevel", "children", ""}

\* the entries a search may find; the client may give an entry without its DN
FoundEntries ==
    { [DN |-> "cn=foo,dc=x",
       attrs |-> {<<"cn", "foo">>, <<"mail", "a">>, <<"mail", "b">>, <<"objectClass", "top">>}],
      [DN |-> "cn=bar,dc=x", attrs |-> {<<"cn", "bar">>, <<"mail", "a">>}],
      [DN |-> "", attrs |-> {<<"distinguishedName", "cn=baz,dc=x">>, <<"cn", "baz">>}],
      [DN |-> "", attrs |-> {<<"cn", "qux">>}] }

\* the lists of entries a search may answer with
ResultLists == UNION {List(S) : S \in SetsUpTo(FoundEntries, MaxFound)}

\* foundObject.GetAttributeValue(key): the first value of the attribute, "" without one
GetAttributeValue(e, key) ==
    LET values == {p[2] : p \in {q \in e.attrs : q[1] = key}}
    IN  IF values = {} THEN {""} ELSE values

RECURSIVE firstDN(_, _)
\* the loop over the keys that may hold the DN: the first value that is not ""
firstDN(e, keys) ==
    IF keys = <<>> THEN {""}
    ELSE UNION { IF v # "" THEN {v} ELSE firstDN(e, Tail(keys))
                 : v \in GetAttributeValue(e, Head(keys)) }

RECURSIVE jsonMarshal(_)
\* json.Marshal of a list of strings, without its brackets; the values here need
\* no escaping
jsonMarshal(values) ==
    IF values = <<>> THEN ""
    ELSE "\"" \o Head(values) \o "\""
         \o (IF Len(values) > 1 THEN "," ELSE "") \o jsonMarshal(Tail(values))

\* the attributes the data source records for an entry
dataAttributes(e, skip, set) ==
    {p \in e.attrs : ~shouldSkipAttribute(p[1], skip, set)}

\* the values attributes_json may get: per recorded name the JSON list of its values
jsonAttributes(e, skip, set) ==
    LET names == Names(dataAttributes(e, skip, set))
        lists(k) == {"[" \o jsonMarshal(l) \o "]"
                     : l \in List({p[2] : p \in {q \in e.attrs : q[1] = k}})}
    IN  {f \in [names -> UNION {lists(k) : k \in names}] : \A k \in names : f[k] \in lists(k)}

\* searchLDAPObject with the answer of its search: the state it leaves, the
\* error it returns and whether it sent the search
searchLDAPObject(dd, input, answer, result, skip, set) ==
    IF normalizeSearchDepth(input) < 0
    THEN {[data |-> dd, err |-> "Search depth not a valid option", sr |-> "none"]}
    ELSE IF answer = NoSuchObject
    THEN {[data |-> dd, err |-> "Object not found with filter", sr |-> answer]}
    ELSE IF answer # "nil"
    THEN {[data |-> dd, err |-> answer, sr |-> answer]}
    ELSE IF Len(result) > 1
    THEN {[data |-> dd, err |-> "There were more than one objects found", sr |-> answer]}
    ELSE IF Len(result) < 1
    THEN {[data |-> dd, err |-> "There were no objects found", sr |-> answer]}
    ELSE LET foundObject == result[1]
             dns == IF foundObject.DN # "" THEN {foundObject.DN}
                    ELSE firstDN(foundObject,
                                 <<"dn", "DN", "distinguished_name", "distinguishedName">>)
         IN  UNION { IF name = ""
                     THEN {[data |-> dd, err |-> "Failed to find DN for object", sr |-> answer]}
                     ELSE {[data |-> [id |-> "-", dn |-> name,
                                      attributes |-> dataAttributes(foundObject, skip, set),
                                      attributes_json |-> j],
                            err |-> "nil", sr |-> answer]
                           : j \in jsonAttributes(foundObject, skip, set)}
                     : name \in dns }

\* what the directory may answer to the search
searchAnswers(result) ==
    {"nil"} \cup (IF result = <<>> THEN {NoSuchObject} ELSE {}) \cup Faults

dataLDAPObjectRead ==
    /\ op = "init"
    /\ \E answer \in searchAnswers(searchResult) :
       \E out \in searchLDAPObject(data, searchDepthInput, answer, searchResult,
                                   attributesToSkip, attributesToSet) :
          /\ data' = out.data
          /\ err' = out.err
          /\ sr' = out.sr
    /\ nExternal' = IF err' = ErrorNetwork THEN nExternal + 1 ELSE nExternal
    /\ op' = "dataRead"
    /\ UNCHANGED <<dn, entry, d, attributesToSkip, attributesToSet, os, ns, modify,
                   calls, b, matched, owned, checksum, intSize, h,
                   searchDepthInput, searchResult, reconcilers, initial>>
    /\ objectClasses' = {}

InitData ==
    /\ dn = ""
    /\ entry = NoEntry
    /\ d = NoState
    /\ attributesToSkip \in SUBSET PolicyNames
    /\ attributesToSet \in SUBSET PolicyNames
    /\ os = {}
    /\ ns = {}
    /\ modify = <<>>
    /\ op = "init"
    /\ err = "nil"
    /\ calls = 0
    /\ sr = "none"
    /\ b = FALSE
    /\ matched = FALSE
    /\ owned = {}
    /\ nExternal = 0
    /\ checksum = 0
    /\ intSize = 0
    /\ h = -1
    /\ searchDepthInput \in DepthInputs
    /\ searchResult \in ResultLists
    /\ data = NoData
    /\ objectClasses = {}
    /\ reconcilers = <<>>
    /\ initial = [exists |-> FALSE, attrs |-> {}]

NextData == dataLDAPObjectRead

SpecData == InitData /\ [][NextData]_vars

---------------------------------------------------------------------------
(* Vocabulary of the properties, written from their statements. *)

\* the values a set holds under a name, as the configuration writes them
ValuesOfName(k, S) == {p[2] : p \in {q \in S : q[1] = k}}

\* the same values as the directory client is given them
EncodedValuesOfName(k, S) == {toAttributeValue(k, v) : v \in ValuesOfName(k, S)}

\* a name the filter policy excludes: denied, or not allowed while an allow list exists
Excluded(k) == k \in attributesToSkip \/ (attributesToSet # {} /\ k \notin attributesToSet)

\* the positions of the request that touch a name
ChangesOf(k) == {i \in DOMAIN modify : modify[i].Type = k}

OperationsIn(request) == {request[i].Operation : i \in DOMAIN request}

FullDiffDone == op = "computeAndAddDeltas"
PartialDiffDone == op = "computeAndAddAttributeDeltas"

---------------------------------------------------------------------------
(* Properties of the diff engines, checked under SpecDiff. *)

\* C1: idempotence of the diff.  For every attribute set S and every filter
\* policy, computeAndAddDeltas(S, S) and computeAndAddAttributeDeltas(S, S) emit
\* an empty directive list.
C1_DiffIdempotent ==
    (os = ns /\ (FullDiffDone \/ PartialDiffDone)) => modify = <<>>

C1_Witness ==
    /\ PartialDiffDone
    /\ os = ns
    /\ Cardinality(os) >= 2
    /\ modify = <<>>

C8_AsStated ==
    PartialDiffDone =>
        /\ OperationsIn(modify) \subseteq {"Delete", "Add"}
        /\ \A k \in Names(os \cup ns) :
            LET removed == ValuesOfName(k, os \ ns)
                added   == ValuesOfName(k, ns \ os)
                deletes == {i \in ChangesOf(k) : modify[i].Operation = "Delete"}
                adds    == {i \in ChangesOf(k) : modify[i].Operation = "Add"}
            IN  /\ Cardinality(deletes) = (IF removed = {} THEN 0 ELSE 1)
                /\ Cardinality(adds) = (IF added = {} THEN 0 ELSE 1)
                /\ \A i \in deletes : modify[i].Vals = removed
                /\ \A i \in adds : modify[i].Vals = added
                /\ \A i \in ChangesOf(k) :
                       modify[i].Vals \cap ValuesOfName(k, os \cap ns) = {}

\* C8: partial-ownership diff payloads.  For every old and new owned set,
\* computeAndAddAttributeDeltas emits only Delete and Add directives: per name
\* with a value in old - new, one Delete whose values are exactly the encoded form
\* (toAttributeValue) of the values of that name in old - new; per name with a
\* value in new - old, one Add whose values are exactly the encoded form of the
\* values of that name in new - old; and no directive carries the encoded form of
\* a value that is in both old and new.
C8_PartialDiffPayloads ==
    PartialDiffDone =>
        /\ OperationsIn(modify) \subseteq {"Delete", "Add"}
        /\ \A k \in Names(os \cup ns) :
            LET removed == EncodedValuesOfName(k, os \ ns)
                added   == EncodedValuesOfName(k, ns \ os)
                deletes == {i \in ChangesOf(k) : modify[i].Operation = "Delete"}
                adds    == {i \in ChangesOf(k) : modify[i].Operation = "Add"}
            IN  /\ Cardinality(deletes) = (IF removed = {} THEN 0 ELSE 1)
                /\ Cardinality(adds) = (IF added = {} THEN 0 ELSE 1)
                /\ \A i \in deletes : modify[i].Vals = removed
                /\ \A i \in adds : modify[i].Vals = added
                /\ \A i \in ChangesOf(k) :
                       modify[i].Vals \cap EncodedValuesOfName(k, os \cap ns) = {}

C8_Witness ==
    /\ PartialDiffDone
    /\ os = {<<"mail", "a">>, <<"mail", "b">>}
    /\ ns = {<<"mail", "a">>, <<"mail", "c">>}
    /\ modify = <<Change("Delete", "mail", {"b"}), Change("Add", "mail", {"c"})>>

\* C9 as stated: with no name filtered, the full-ownership diff of ({}, S) emits
\* exactly one Add per distinct name in S, each carrying all of S's values for
\* that name, and no Replace and no Delete.
C9_AsStated ==
    (FullDiffDone /\ os = {} /\ \A k \in Names(ns) : ~Excluded(k)) =>
        /\ OperationsIn(modify) \subseteq {"Add"}
        /\ Len(modify) = Cardinality(Names(ns))
        /\ \A k \in Names(ns) :
               \E i \in DOMAIN modify :
                   modify[i] = Change("Add", k, ValuesOfName(k, ns))

\* C9: additivity.  For every attribute set S with no name filtered, the
\* full-ownership diff of ({}, S) emits exactly one Add per distinct name in S,
\* each carrying the encoded form (toAttributeValue) of all of S's values for
\* that name, and emits no Replace and no Delete.
C9_Additivity ==
    (FullDiffDone /\ os = {} /\ \A k \in Names(ns) : ~Excluded(k)) =>
        /\ OperationsIn(modify) \subseteq {"Add"}
        /\ Len(modify) = Cardinality(Names(ns))
        /\ \A k \in Names(ns) :
               \E i \in DOMAIN modify :
                   modify[i] = Change("Add", k, EncodedValuesOfName(k, ns))

C9_Witness ==
    /\ FullDiffDone
    /\ os = {}
    /\ ns = {<<"mail", "a">>, <<"mail", "b">>, <<"unicodePwd", "p">>}
    /\ \A k \in Names(ns) : ~Excluded(k)
    /\ Len(modify) = 2

\* C10: full removal.  For every attribute set S with no name filtered, the
\* full-ownership diff of (S, {}) emits exactly one Delete per distinct name in S,
\* with an empty value list, and emits no Add and no Replace.
C10_FullRemoval ==
    (FullDiffDone /\ ns = {} /\ \A k \in Names(os) : ~Excluded(k)) =>
        /\ Len(modify) = Cardinality(Names(os))
        /\ \A k \in Names(os) :
               \E i \in DOMAIN modify : modify[i] = Change("Delete", k, {})

C10_Witness ==
    /\ FullDiffDone
    /\ ns = {}
    /\ os = {<<"cn", "bar">>, <<"mail", "a">>, <<"mail", "b">>}
    /\ \A k \in Names(os) : ~Excluded(k)
    /\ Len(modify) = 2

---------------------------------------------------------------------------
(* Properties of ldap_object, checked under Spec. *)

\* C5: second-pass idempotence of reconciliation.  After update(dn, old, new)
\* succeeds against a directory that matched old and its read-back has refreshed
\* the recorded state, a further update toward the same desired set new emits
\* no directive and so issues no modify call, for any desired set and filter
\* policy.
C5_AsStated ==
    (op = "update" /\ err = "nil" /\ matched /\ d.id # "") =>
        computeAndAddDeltas(<<>>, d.attributes, ns, attributesToSkip, attributesToSet)
            = {<<>>}

---------------------------------------------------------------------------
(* Properties of ldap_object_attributes, checked under SpecAttributes and,  *)
(* for its earlier revision, under SpecAttributesV1.                         *)

PartialOperations == {"create", "update", "delete"}

\* C2: partial-ownership safety.  In every step a create, update or delete of
\* ldap_object_attributes takes, every (name, value) pair that is live in the
\* directory and was never in the resource's owned set (old or new, this
\* operation's included) is still present afterwards: no directive removes or
\* overwrites such a value.
C2_PartialOwnershipSafety ==
    [][ (op' \in PartialOperations /\ entry.exists) =>
            \A p \in entry.attrs :
                p \notin Wire(owned') => (entry'.exists /\ p \in entry'.attrs) ]_vars

C2_Witness ==
    /\ op = "delete"
    /\ err = "nil"
    /\ modify = <<Change("Delete", "mail", {"a"})>>
    /\ <<"mail", "a">> \in owned
    /\ <<"mail", "b">> \notin owned
    /\ <<"mail", "b">> \in entry.attrs
    /\ <<"mail", "a">> \notin entry.attrs

\* C3 as stated: in partial-ownership mode no Replace is ever issued; for every
\* old and new owned set the update and delete operations of the
\* partial-ownership resource emit only Add and Delete directives.
C3_AsStated ==
    op \in {"update", "delete"} => OperationsIn(modify) \subseteq {"Add", "Delete"}

\* C4 as stated: not-found semantics.  In both modes a read for which the
\* directory search returns result code 32 clears the local record (ID empty,
\* exists = false) and returns no error.
C4_AsStated ==
    /\ (op = "read" /\ sr = NoSuchObject) => (d.id = "" /\ err = "nil")
    /\ (op = "exists" /\ sr = NoSuchObject) => (~b /\ err = "nil")

\* C6 as stated: the partial-ownership read, when its search finds the entry,
\* records exactly (old \cup new) \cap live, live being the attribute set just
\* read from the directory for the DN: the recorded set holds no pair absent
\* from the directory and no pair outside old \cup new; when the intersection
\* is empty the ID is cleared and no error is returned, otherwise the ID is the DN.
C6_AsStated ==
    (op = "read" /\ sr = "nil") =>
        LET live == ldapSet(entry, dn)
            kept == (os \cup ns) \cap live
        IN  /\ err = "nil"
            /\ IF kept = {}
               THEN d.id = ""
               ELSE /\ d.id = dn
                    /\ d.attributes = kept
                    /\ d.attributes \subseteq entry.attrs
                    /\ d.attributes \subseteq os \cup ns

---------------------------------------------------------------------------
(* Properties of the filter policy, checked under SpecFilter. *)

\* C11: filter policy.  A name is excluded when it is on the deny list, or when
\* the allow list is not empty and the name is not on it; a name on both lists is
\* excluded.  For every old, new and policy computeAndAddDeltas emits no Add,
\* Replace or Delete for an excluded name; the Add request of create carries the
\* declared classes and exactly the declared pairs whose name is not excluded;
\* the set the read-back records holds no excluded name.  In create and read-back
\* objectClass is always on the deny list.
C11_FilterPolicy ==
    /\ FullDiffDone =>
           \A k \in Names(os \cup ns) : Excluded(k) => ChangesOf(k) = {}
    /\ op = "createRequest" =>
           entry.attrs = PairsOf("objectClass", d.object_classes)
                         \cup Wire({p \in ns : ~(Excluded(p[1]) \/ p[1] = "objectClass")})
    /\ op = "readBack" =>
           /\ \A p \in d.attributes : ~(Excluded(p[1]) \/ p[1] = "objectClass")
           /\ \A p \in entry.attrs :
                  (~(Excluded(p[1]) \/ p[1] = "objectClass") /\ p # RDNPair(dn))
                      => p \in d.attributes

C11_Witness ==
    /\ FullDiffDone
    /\ attributesToSkip = {"mail"}
    /\ attributesToSet = {"mail"}
    /\ os = {<<"mail", "a">>}
    /\ ns = {<<"mail", "b">>, <<"cn", "bar">>}
    /\ modify = <<>>

---------------------------------------------------------------------------
(* Properties of the reads. *)

\* the values the entry holds under a name
LiveValues(k) == {p[2] : p \in {q \in entry.attrs : q[1] = k}}

\* the RDN rule: the attribute has exactly one value and name=value starts the DN
IsRDN(k) ==
    /\ Cardinality(LiveValues(k)) = 1
    /\ \A v \in LiveValues(k) : HasPrefix(dn, k \o "=" \o v)

\* C12 as stated, for the partial-ownership read of the earlier revision: when
\* an attribute read back from the directory has exactly one value and name=value
\* is a prefix of the DN, it is left out of the set built from the directory
\* read; an attribute with two or more values is never left out by this rule.
C12_AsStated ==
    (op = "read" /\ sr = "nil") =>
        \A k \in Names(entry.attrs) :
            /\ IsRDN(k) => \A v \in LiveValues(k) : <<k, v>> \notin ldapSetV1(entry)
            /\ Cardinality(LiveValues(k)) >= 2 =>
                   \A v \in LiveValues(k) : <<k, v>> \in ldapSetV1(entry)

---------------------------------------------------------------------------
(* Properties of update in both resources, checked under SpecResources. *)

\* the directory refuses the request whatever else happens
Rejects(e, request) == \A m \in Modify(e, dn, request) : m.err # "nil"

\* C13: no partial application.  When the directory rejects the modify call of
\* an update, of ldap_object or of ldap_object_attributes, update returns that
\* error, performs no read-back, and leaves the recorded attribute set, the
\* record ID and the entry as they were, so the next pass computes the same diff
\* from the same old set.
C13_NoPartialApplication ==
    [][ (op' = "update" /\ calls' = 1 /\ Rejects(entry, modify')) =>
            /\ err' \in {m.err : m \in Modify(entry, dn, modify')}
            /\ sr' = "none"
            /\ d' = d
            /\ entry' = entry ]_vars

C13_Witness ==
    /\ op = "update"
    /\ IsObject
    /\ calls = 1
    /\ err = NotAllowedOnRDN
    /\ sr = "none"
    /\ d.id = dn
    /\ d.attributes = os
    /\ os # ns

---------------------------------------------------------------------------
(* Properties of ldap_object, checked under Spec (continued). *)

\* C14: full-ownership read-back.  After a read that found the entry and
\* returned no error (the read, the import, and the read-back of create and
\* update), the recorded attribute set is exactly the set of the live pairs of
\* the entry whose name passes the filter policy (objectClass always denied) and
\* that the RDN rule does not leave out, and the record ID is the DN.
C14_FullReadBack ==
    (op \in {"read", "import", "create", "update"} /\ sr = "nil" /\ err = "nil") =>
        /\ d.id = dn
        /\ d.attributes = {p \in entry.attrs : ~Excluded(p[1]) /\ ~IsRDN(p[1])}

C14_Witness ==
    /\ op = "read"
    /\ sr = "nil"
    /\ err = "nil"
    /\ attributesToSet = {}
    /\ "mail" \in attributesToSkip
    /\ <<"mail", "a">> \in entry.attrs
    /\ d.attributes = {<<"cn", "foo">>, <<"cn", "bar">>}

---------------------------------------------------------------------------
(* Properties of the request applied to the entry, checked under SpecConverge. *)

NonFiltered(S) == {p \in S : ~Excluded(p[1])}
Filtered(S) == {p \in S : Excluded(p[1])}

---------------------------------------------------------------------------
(* Properties of attributeHash, checked under SpecHash. *)

\* the checksum read as an int of the platform
SignedChecksum == IF checksum >= 2 ^ (intSize - 1) THEN checksum - 2 ^ intSize ELSE checksum
MinInt == -(2 ^ (intSize - 1))

\* C16: attributeHash returns a non-negative integer and the same one for the
\* same checksum: the checksum itself when it is not negative as an int; with an
\* int as wide as the checksum (32 bits), a negative checksum h is returned as
\* -h; the result is 0 only when the checksum is 0 or when negation still yields
\* a negative value, which happens at the minimum representable integer only.
C16_HashNonNegative ==
    op = "attributeHash" =>
        /\ h >= 0
        /\ SignedChecksum >= 0 => h = checksum
        /\ (SignedChecksum < 0 /\ SignedChecksum # MinInt) => h = -SignedChecksum
        /\ SignedChecksum = MinInt => h = 0
        /\ h = 0 => (checksum = 0 \/ SignedChecksum = MinInt)

C16_Witness ==
    /\ op = "attributeHash"
    /\ intSize = ChecksumBits
    /\ SignedChecksum = MinInt
    /\ h = 0

---------------------------------------------------------------------------
(* Properties of the data source, checked under SpecData. *)

\* the names of a search depth, whatever the case of their letters
RecognisedDepth(name) ==
    ToLower(name) \in {"sub", "subtree", "wholesubtree", "base", "baseobject",
                       "one", "singlelevel"}

\* C17: validation errors of the unique lookup are surfaced at once and write no
\* state.  A search-depth name that is not recognised returns an error before
\* any search is sent; a search that returns no entry or more than one entry
\* returns an error; in both cases dn, ID and attributes are not set.
C17_LookupValidation ==
    op = "dataRead" =>
        /\ ~RecognisedDepth(searchDepthInput) =>
               (err # "nil" /\ sr = "none" /\ data = NoData)
        /\ (RecognisedDepth(searchDepthInput) /\ sr = "nil" /\ Len(searchResult) # 1) =>
               (err # "nil" /\ data = NoData)

C17_Witness ==
    /\ op = "dataRead"
    /\ searchDepthInput = "BASE"
    /\ sr = "nil"
    /\ Len(searchResult) = 2
    /\ err = "There were more than one objects found"
    /\ data = NoData

---------------------------------------------------------------------------
(* Properties of ldap_object's create, checked under Spec. *)

\* C18: create lifecycle in full-ownership mode.  The record ID is set to the DN
\* only after the directory Add call has succeeded; if Add fails (the entry is
\* there before the call, or is not there after it), create returns the error
\* of Add, the ID stays unset and no read-back is performed.
C18_CreateLifecycle ==
    [][ op' = "create" =>
            /\ (entry.exists \/ ~entry'.exists) =>
                   /\ err' \in {a.err : a \in Add(entry, dn, {})} \ {"nil"}
                   /\ d'.id = ""
                   /\ sr' = "none"
                   /\ entry' = entry
            /\ d'.id = dn => (~entry.exists /\ entry'.exists) ]_vars

C18_Witness ==
    /\ op = "create"
    /\ err = EntryAlreadyExists
    /\ entry.exists
    /\ d.id = ""
    /\ sr = "none"
    /\ ns # {}

---------------------------------------------------------------------------
(* Properties of the diff engines, checked under SpecDiff (continued). *)

\* in how many of the partitions Removed, Added and Kept a name appears
PartitionsOf(k) ==
    Cardinality({x \in {<<"Removed", os \ ns>>, <<"Added", ns \ os>>, <<"Kept", ns \cap os>>}
                 : k \in Names(x[2])})

\* C19 as stated: for every old, new and policy each name receives at most one
\* directive; Add(name) is emitted only when old holds no value under that name,
\* Delete(name) only when new holds no value under that name; a name that
\* appears in more than one of the Removed, Added and Kept partitions receives
\* Replace and neither Add nor Delete.
C19_AsStated ==
    FullDiffDone =>
        \A k \in Names(os \cup ns) :
            /\ Cardinality(ChangesOf(k)) <= 1
            /\ \A i \in ChangesOf(k) :
                   /\ modify[i].Operation = "Add" => ValuesOfName(k, os) = {}
                   /\ modify[i].Operation = "Delete" => ValuesOfName(k, ns) = {}
            /\ PartitionsOf(k) > 1 =>
                   \E i \in DOMAIN modify :
                       ChangesOf(k) = {i} /\ modify[i].Operation = "Replace"

\* C19: directive classification in the full-ownership diff.  For every old, new
\* and policy each name receives at most one directive; Add(name) is emitted only
\* when old holds no value under that name, Delete(name) only when new holds no
\* value under that name; a name that appears in more than one of the Removed,
\* Added and Kept partitions receives Replace and neither Add nor Delete when the
\* policy does not exclude it, and no directive at all when it does.
C19_DirectiveClassification ==
    FullDiffDone =>
        \A k \in Names(os \cup ns) :
            /\ Cardinality(ChangesOf(k)) <= 1
            /\ \A i \in ChangesOf(k) :
                   /\ modify[i].Operation = "Add" => ValuesOfName(k, os) = {}
                   /\ modify[i].Operation = "Delete" => ValuesOfName(k, ns) = {}
            /\ (PartitionsOf(k) > 1 /\ ~Excluded(k)) =>
                   \E i \in DOMAIN modify :
                       ChangesOf(k) = {i} /\ modify[i].Operation = "Replace"
            /\ (PartitionsOf(k) > 1 /\ Excluded(k)) => ChangesOf(k) = {}

C19_Witness ==
    /\ FullDiffDone
    /\ attributesToSkip = {}
    /\ attributesToSet = {}
    /\ os = {<<"cn", "foo">>, <<"mail", "a">>}
    /\ ns = {<<"cn", "bar">>, <<"mail", "a">>, <<"mail", "b">>}
    /\ Len(modify) = 2
    /\ OperationsIn(modify) = {"Replace"}

---------------------------------------------------------------------------
(* Properties of the updates of both resources, checked under SpecResources. *)

\* C20: each update, of ldap_object or of ldap_object_attributes, issues at most
\* one modify call; the directory changes as that one request prescribes; the
\* request carries every directive computed for the pass: in ldap_object the
\* objectClass Replace first, when the declared classes differ from the recorded
\* ones, then the directives of computeAndAddDeltas, in ldap_object_attributes the
\* directives of computeAndAddAttributeDeltas; and with no directive no modify
\* call is issued and the entry stays as it was.
C20_SingleModifyCall ==
    [][ op' = "update" =>
            /\ calls' <= 1
            /\ (calls' = 0) <=> (modify' = <<>>)
            /\ calls' = 1 => entry' \in {m.entry : m \in Modify(entry, dn, modify')}
            /\ calls' = 0 => entry' = entry
            /\ IsObject =>
                   LET k == IF d.object_classes # objectClasses' THEN 1 ELSE 0
                   IN  /\ Len(modify') >= k
                       /\ k = 1 => modify'[1] = Change("Replace", "objectClass",
                                                       objectClasses')
                       /\ SubSeq(modify', k + 1, Len(modify'))
                              \in (IF os' # ns'
                                   THEN computeAndAddDeltas(<<>>, os', ns',
                                            attributesToSkip, attributesToSet)
                                   ELSE {<<>>})
            /\ ~IsObject =>
                   modify' \in (IF os' # ns'
                                THEN computeAndAddAttributeDeltas(<<>>, os', ns')
                                ELSE {<<>>}) ]_vars

C20_Witness ==
    /\ op = "update"
    /\ IsObject
    /\ err = "nil"
    /\ calls = 1
    /\ Len(modify) = 2
    /\ modify[1] = Change("Replace", "objectClass", objectClasses)
    /\ modify[2].Type = "mail"

---------------------------------------------------------------------------
(* Properties of the earlier ldap_object_attributes, checked under           *)
(* SpecAttributesV1 (continued).                                            *)

\* C21 as stated: every create and every update that returns without an error,
\* in both ownership modes, has read the entry back after its mutation and before
\* returning: its search was made.
C21_AsStated ==
    (op \in {"create", "update"} /\ err = "nil") => sr # "none"

---------------------------------------------------------------------------
(* Properties of ldap_object_attributes, checked under SpecAttributes        *)
(* (continued).                                                             *)

\* C22: every Delete directive an update or a delete of ldap_object_attributes
\* emits carries a non-empty list of values, each the encoded form of a value
\* the resource owned and gives up (old - new under that name); so no Delete
\* names a whole attribute.
C22_PartialDeleteValues ==
    op \in {"update", "delete"} =>
        \A i \in DOMAIN modify :
            modify[i].Operation = "Delete" =>
                /\ modify[i].Vals # {}
                /\ modify[i].Vals = EncodedValuesOfName(modify[i].Type, os \ ns)

C22_Witness ==
    /\ op = "update"
    /\ err = "nil"
    /\ os = {<<"mail", "a">>, <<"mail", "b">>}
    /\ ns = {<<"mail", "b">>}
    /\ modify = <<Change("Delete", "mail", {"a"})>>
    /\ <<"mail", "b">> \in entry.attrs
    /\ <<"mail", "a">> \notin entry.attrs

---------------------------------------------------------------------------
(* SpecTwo: two ldap_object_attributes resources declared on the same entry, *)
(* each with values of its own.  Terraform runs the handlers of different   *)
(* resources side by side: a handler is a client.Modify and, in create and  *)
(* update, the read-back with its client.Search, and the calls of the other *)
(* resource may come between the two.  Nothing else changes the entry; a    *)
(* call may meet a transport failure, after which its handler returns.      *)

Reconcilers == {1, 2}

\* the pairs each resource may declare: values of its own, under names they share
\* with each other and with the entry
ValuesOf(r) ==
    IF r = 1 THEN {<<"mail", "b">>, <<"cn", "bar">>}
    ELSE {<<"mail", "c">>, <<"cn", "baz">>}

\* the attribute sets the configuration of a resource declares
DeclaredSets(r) == SetsUpTo(ValuesOf(r), MaxDesired)

\* a resource that is not in the state and has no handler running
NoReconciler == [d |-> NoState, pc |-> "idle", old |-> {}, new |-> {}]

\* resourceLDAPObjectAttributesCreate up to the answer of client.Modify
CreateModify(r) ==
    /\ reconcilers[r].pc = "idle"
    /\ reconcilers[r].d.id = ""
    /\ \E new \in DeclaredSets(r) :
       \E request \in createChanges(new) :
       \E modified \in Modify(entry, dn, request) :
          /\ modify' = request
          /\ entry' = modified.entry
          /\ err' = modified.err
          /\ reconcilers' = [reconcilers EXCEPT ![r] =
                IF modified.err # "nil" THEN @
                ELSE [@ EXCEPT !.pc = "read", !.old = {}, !.new = new]]
    /\ calls' = 1
    /\ op' = "create"
    /\ UNCHANGED <<dn, d, attributesToSkip, attributesToSet, os, ns, sr, b, matched,
                   owned, checksum, intSize, h, searchDepthInput, searchResult,
                   data, objectClasses, initial>>
    /\ nExternal' = IF err' = ErrorNetwork THEN nExternal + 1 ELSE nExternal

\* resourceLDAPObjectAttributesUpdate up to the answer of client.Modify, which
\* is not called for an empty request
UpdateModify(r) ==
    /\ reconcilers[r].pc = "idle"
    /\ reconcilers[r].d.id # ""
    /\ \E new \in DeclaredSets(r) :
       \E request \in (IF reconcilers[r].d.attributes # new
                       THEN computeAndAddAttributeDeltas(<<>>, reconcilers[r].d.attributes,
                                                         new)
                       ELSE {<<>>}) :
       \E modified \in (IF Len(request) > 0
                        THEN Modify(entry, dn, request)
                        ELSE {[err |-> "nil", entry |-> entry]}) :
          /\ modify' = request
          /\ calls' = IF Len(request) > 0 THEN 1 ELSE 0
          /\ entry' = modified.entry
          /\ err' = modified.err
          /\ reconcilers' = [reconcilers EXCEPT ![r] =
                IF modified.err # "nil" THEN @
                ELSE [@ EXCEPT !.pc = "read", !.old = reconcilers[r].d.attributes, !.new = new]]
    /\ op' = "update"
    /\ UNCHANGED <<dn, d, attributesToSkip, attributesToSet, os, ns, sr, b, matched,
                   owned, checksum, intSize, h, searchDepthInput, searchResult,
                   data, objectClasses, initial>>
    /\ nExternal' = IF err' = ErrorNetwork THEN nExternal + 1 ELSE nExternal

\* the resourceLDAPObjectAttributesRead that create and update return with
ReadBackOf(r) ==
    /\ reconcilers[r].pc = "read"
    /\ \E answer \in Search(entry) :
          LET back == AttributesReadOutcome(reconcilers[r].d, entry, dn, answer,
                                            reconcilers[r].old, reconcilers[r].new)
          IN  /\ err' = back.err
              /\ reconcilers' = [reconcilers EXCEPT ![r] =
                    [d |-> back.d, pc |-> "idle", old |-> {}, new |-> {}]]
    /\ modify' = <<>>
    /\ calls' = 0
    /\ op' = "readBack"
    /\ UNCHANGED <<dn, entry, d, attributesToSkip, attributesToSet, os, ns, sr, b,
                   matched, owned, checksum, intSize, h, searchDepthInput,
                   searchResult, data, objectClasses, initial>>
    /\ nExternal' = IF err' = ErrorNetwork THEN nExternal + 1 ELSE nExternal

\* resourceLDAPObjectAttributesDelete
DeleteModify(r) ==
    /\ reconcilers[r].pc = "idle"
    /\ reconcilers[r].d.id # ""
    /\ \E request \in computeAndAddAttributeDeltas(<<>>, reconcilers[r].d.attributes, {}) :
       \E modified \in (IF Len(request) > 0
                        THEN Modify(entry, dn, request)
                        ELSE {[err |-> "nil", entry |-> entry]}) :
          /\ modify' = request
          /\ calls' = IF Len(request) > 0 THEN 1 ELSE 0
          /\ entry' = modified.entry
          /\ err' = modified.err
          /\ reconcilers' = [reconcilers EXCEPT ![r] =
                IF modified.err # "nil" THEN @ ELSE NoReconciler]
    /\ op' = "delete"
    /\ UNCHANGED <<dn, d, attributesToSkip, attributesToSet, os, ns, sr, b, matched,
                   owned, checksum, intSize, h, searchDepthInput, searchResult,
                   data, objectClasses, initial>>
    /\ nExternal' = IF err' = ErrorNetwork THEN nExternal + 1 ELSE nExternal

InitTwo ==
    /\ dn = "cn=foo,dc=x"
    /\ entry \in InitialEntries
    /\ initial = entry
    /\ reconcilers = [r \in Reconcilers |-> NoReconciler]
    /\ d = NoState
    /\ attributesToSkip = {}
    /\ attributesToSet = {}
    /\ os = {}
    /\ ns = {}
    /\ modify = <<>>
    /\ op = "init"
    /\ err = "nil"
    /\ calls = 0
    /\ sr = "none"
    /\ b = FALSE
    /\ matched = FALSE
    /\ owned = {}
    /\ nExternal = 0
    /\ checksum = 0
    /\ intSize = 0
    /\ h = -1
    /\ searchDepthInput = "subtree"
    /\ searchResult = <<>>
    /\ data = NoData
    /\ objectClasses = {}

NextTwo ==
    \/ \E r \in Reconcilers : CreateModify(r)
    \/ \E r \in Reconcilers : UpdateModify(r)
    \/ \E r \in Reconcilers : ReadBackOf(r)
    \/ \E r \in Reconcilers : DeleteModify(r)

SpecTwo == InitTwo /\ [][NextTwo]_vars

---------------------------------------------------------------------------
(* SpecRDN: the reads of both resources on entries of several names.  The    *)
(* resource is in the state with some recorded attributes; the entry holds  *)
(* the values its name is made of (RFC 4512, 2.3) and any others.           *)

\* the names of the entries: one the other begins with, and one whose first
\* component has two attribute-value pairs
DNs == {"cn=foo,dc=x", "cn=foobar,dc=x", "cn=foo+sn=bar,dc=x"}

\* the first component of a DN: the text before the first comma
FirstComponent(name) == SubSeq(name, 1, IndexOf(name, ",", 1) - 1)

\* the first attribute-value pair of a DN, as text
FirstAVA(name) ==
    LET c == FirstComponent(name)
    IN  SubSeq(c, 1, IndexOf(c, "+", 1) - 1)

RECURSIVE AVAsOf(_)
\* the attribute-value pairs of a component, which "+" separates
AVAsOf(c) ==
    IF Len(c) = 0 THEN {}
    ELSE LET plus == IndexOf(c, "+", 1)
             ava == SubSeq(c, 1, plus - 1)
             eq == IndexOf(ava, "=", 1)
         IN  {<<SubSeq(ava, 1, eq - 1), SubSeq(ava, eq + 1, Len(ava))>>}
             \cup (IF plus > Len(c) THEN {}
                   ELSE AVAsOf(SubSeq(c, plus + 1, Len(c))))

\* the pairs an entry of that name always holds
NamingPairs(name) == AVAsOf(FirstComponent(name))

\* what else the entry may hold, and what the resource may have recorded
RDNExtras == {<<"cn", "foo">>, <<"cn", "foobar">>, <<"sn", "bar">>, <<"mail", "a">>}

InitRDN ==
    /\ dn \in DNs
    /\ \E F \in SUBSET RDNExtras :
          entry = [exists |-> TRUE,
                   attrs |-> NamingPairs(dn) \cup {<<"objectClass", "top">>} \cup F]
    /\ \E A \in SetsUpTo(RDNExtras, MaxDesired) :
          d = [id |-> dn, attributes |-> A, object_classes |-> {"top"}]
    /\ attributesToSkip \in {{}, {"objectClass"}}
    /\ attributesToSet = {}
    /\ os = {}
    /\ ns = {}
    /\ modify = <<>>
    /\ op = "init"
    /\ err = "nil"
    /\ calls = 0
    /\ sr = "none"
    /\ b = FALSE
    /\ matched = FALSE
    /\ owned = {}
    /\ nExternal = 0
    /\ InitAux

NextRDN ==
    \/ IsObject /\ resourceLDAPObjectRead
    \/ ~IsObject /\ resourceLDAPObjectAttributesRead

SpecRDN == InitRDN /\ [][NextRDN]_vars

---------------------------------------------------------------------------
(* Properties of the RDN rule, checked under SpecRDN. *)

\* the pairs of the entry a read is to record unless the RDN rule drops them: in
\* ldap_object those the policy does not exclude, in ldap_object_attributes those
\* the resource has recorded
Candidates ==
    IF IsObject THEN {p \in entry.attrs : ~Excluded(p[1])}
    ELSE d.attributes \cap entry.attrs

\* C23 as stated: whenever a read-back leaves a single-valued attribute out under
\* the RDN rule, name=value equals the first component of the DN (the text before
\* the first comma); cn=foo on the entry cn=foobar,dc=x is not left out.
C23_AsStated ==
    [][ (op' = "read" /\ sr' = "nil") =>
            /\ \A p \in Candidates \ d'.attributes :
                   /\ Cardinality(LiveValues(p[1])) = 1
                   /\ p[1] \o "=" \o p[2] = FirstComponent(dn)
            /\ (dn = "cn=foobar,dc=x" /\ <<"cn", "foo">> \in Candidates) =>
                   <<"cn", "foo">> \in d'.attributes ]_vars

\* C23: the RDN rule drops only a value the entry is named by.  Whenever a
\* read-back leaves an attribute out under the rule, the attribute has one value
\* and name=value is the first attribute-value pair of the DN: the text before
\* the first comma, or before the first plus sign when the first component has
\* several pairs; cn=foo on the entry cn=foobar,dc=x, which holds cn=foobar as
\* well, is not left out.
C23_RDNRuleDropsNamingValue ==
    [][ (op' = "read" /\ sr' = "nil") =>
            /\ \A p \in Candidates \ d'.attributes :
                   /\ Cardinality(LiveValues(p[1])) = 1
                   /\ p[1] \o "=" \o p[2] = FirstAVA(dn)
                   /\ p \in NamingPairs(dn)
            /\ (dn = "cn=foobar,dc=x" /\ <<"cn", "foo">> \in Candidates) =>
                   <<"cn", "foo">> \in d'.attributes ]_vars

C23_Witness ==
    /\ op = "read"
    /\ sr = "nil"
    /\ dn = "cn=foobar,dc=x"
    /\ ~IsObject
    /\ LiveValues("cn") = {"foo", "foobar"}
    /\ d.attributes = {<<"cn", "foo">>}

---------------------------------------------------------------------------
(* Properties of two ldap_object_attributes on one entry, checked under      *)
(* SpecTwo.                                                                 *)

\* no handler of either resource is running
AllIdle == \A r \in Reconcilers : reconcilers[r].pc = "idle"

\* the pairs the resources have recorded
OwnedNow == UNION {reconcilers[r].d.attributes : r \in Reconcilers}

\* C24: two ldap_object_attributes that declare disjoint values on the same
\* entry, under shared names as well, do not interfere.  In every step of every
\* interleaving of their creates, updates and deletes the entry changes by the
\* whole request of the step or not at all, and the values of a resource whose
\* record the step leaves alone stay as they were; whenever no handler is
\* running, every call having been answered, the entry holds exactly what it
\* held before the resources acted plus what each of them has recorded.
C24_NonInterference ==
    [][ /\ entry' # entry =>
               /\ ApplyChanges(entry.attrs, modify').err = "nil"
               /\ entry'.attrs = ApplyChanges(entry.attrs, modify').attrs
        /\ \A r \in Reconcilers :
               reconcilers'[r] = reconcilers[r] =>
                   entry'.attrs \cap Wire(ValuesOf(r)) = entry.attrs \cap Wire(ValuesOf(r))
        /\ (AllIdle' /\ nExternal' = 0) =>
               entry'.attrs = initial.attrs \cup Wire(OwnedNow') ]_vars

C24_Witness ==
    /\ AllIdle
    /\ nExternal = 0
    /\ op = "delete"
    /\ err = "nil"
    /\ modify = <<Change("Delete", "mail", {"c"})>>
    /\ reconcilers[1].d.attributes = {<<"mail", "b">>}
    /\ reconcilers[2].d.id = ""
    /\ <<"mail", "a">> \in initial.attrs
    /\ LiveValues("mail") = {"a", "b"}

===========================================================================
